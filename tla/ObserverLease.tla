----------------------------- MODULE ObserverLease -----------------------------
(***************************************************************************)
(* The lease file that keeps the polls and webhooks of several observer    *)
(* processes from working on the state document at the same time           *)
(* (FileObserverStateStore of observer/state.ts, pollOnce and              *)
(* ingestWebhook of observer/runtime.ts).                                  *)
(*                                                                         *)
(* acquireLease is synchronous: calls of one process never interleave      *)
(* inside it, those of different processes may between any two file        *)
(* operations.  What a call does under the lease is reduced to loading the *)
(* document, sending events it does not record and saving its whole copy:  *)
(* ObserverRuntime models that part.  The lock file carries no owner: a    *)
(* call knows its age, in clock ticks up to the lease and one more, and    *)
(* "owner" is there for the properties only.                               *)
(*                                                                         *)
(* Bounds: CallTicks is the longest a call runs, MaxCrashes the number of  *)
(* processes that die and are restarted.                                   *)
(***************************************************************************)
EXTENDS Integers

CONSTANTS
    Call,           \* pollOnce and ingestWebhook calls that may run at once
    Poll,           \* those started by the interval timer
    Process, HostOf,
    Events,
    LeaseTicks,     \* config.leaseMs
    CallTicks,      \* the longest a call runs
    MaxCrashes

ASSUME LeaseAssumption ==
    /\ Poll \subseteq Call
    /\ HostOf \in [Call -> Process]
    /\ LeaseTicks \in Nat
    /\ CallTicks \in Nat
    /\ MaxCrashes \in Nat

VARIABLES
    lock,       \* age of the lock file, NoLock when there is none
    owner,      \* the call that created it
    pc,
    held,       \* how long a call has been running under the lease
    mem,        \* the events a call's copy of the document records
    disk,       \* the events the document records
    sent, repeated,
    raced,      \* has a call removed a lock file that was not its own or stale?
    crashes

file == <<lock, owner>>
work == <<held, mem, disk, sent, repeated>>
ghost == <<raced, crashes>>
vars == <<file, pc, work, ghost>>

NoLock == -1

Acquiring == {"found", "stale", "removed"}

TypeOK ==
    /\ lock \in {NoLock} \cup 0..(LeaseTicks + 1)
    /\ owner \in Call
    /\ pc \in [Call -> {"idle", "holding"} \cup Acquiring]
    /\ held \in [Call -> 0..CallTicks]
    /\ mem \in [Call -> SUBSET Events]
    /\ disk \subseteq Events
    /\ sent \subseteq Events
    /\ repeated \subseteq sent
    /\ raced \in BOOLEAN
    /\ crashes \in 0..MaxCrashes
    /\ \A c, d \in Call :
          /\ pc[c] \in Acquiring
          /\ pc[d] \in Acquiring
          /\ HostOf[c] = HostOf[d]
          => c = d

Init ==
    /\ lock = NoLock
    /\ owner \in Call
    /\ pc = [c \in Call |-> "idle"]
    /\ held = [c \in Call |-> 0]
    /\ mem = [c \in Call |-> {}]
    /\ disk = {}
    /\ sent = {}
    /\ repeated = {}
    /\ raced = FALSE
    /\ crashes = 0

-----------------------------------------------------------------------------
(* acquireLease *)

(* The process of c is not inside another call's acquireLease. *)
Runs(c) ==
    \A d \in Call :
        HostOf[d] = HostOf[c] /\ pc[d] \in Acquiring => d = c

Goto(c, place) == pc' = [pc EXCEPT ![c] = place]

(* Mutant: a lease may be taken over in its last tick. *)
IsStaleEarly == lock >= LeaseTicks

(* clock - mtime <= leaseMs is respected *)
IsStale == lock > LeaseTicks

(* Mutant: a copy loaded earlier is used. *)
EnterUnloaded(c) ==
    /\ lock' = 0
    /\ owner' = c
    /\ Goto(c, "holding")
    /\ UNCHANGED <<work, ghost>>

(* The new lock file is this call's; the document is loaded under it. *)
Enter(c) ==
    /\ lock' = 0
    /\ owner' = c
    /\ Goto(c, "holding")
    /\ mem' = [mem EXCEPT ![c] = disk]
    /\ UNCHANGED <<held, disk, sent, repeated, ghost>>

(* openSync "wx" *)
Create(c) ==
    /\ Runs(c)
    /\ pc[c] = "idle"
    /\ lock = NoLock
    /\ Enter(c)

(* Mutant: acquireLease awaits its file operations. *)
FindInterleaved(c) ==
    /\ pc[c] = "idle"
    /\ lock # NoLock
    /\ Goto(c, "found")
    /\ UNCHANGED <<file, work, ghost>>

(* Mutant: looking at the lock file touches it. *)
FindTouching(c) ==
    /\ Runs(c)
    /\ pc[c] = "idle"
    /\ lock # NoLock
    /\ lock' = 0
    /\ Goto(c, "found")
    /\ UNCHANGED <<owner, work, ghost>>

Find(c) ==
    /\ Runs(c)
    /\ pc[c] = "idle"
    /\ lock # NoLock
    /\ Goto(c, "found")
    /\ UNCHANGED <<file, work, ghost>>

(* statSync: the lease is respected, or has expired. *)
Respect(c) ==
    /\ pc[c] = "found"
    /\ lock # NoLock
    /\ ~IsStale
    /\ Goto(c, "idle")
    /\ UNCHANGED <<file, work, ghost>>

Expire(c) ==
    /\ pc[c] = "found"
    /\ IsStale
    /\ Goto(c, "stale")
    /\ UNCHANGED <<file, work, ghost>>

(* unlinkSync removes whatever lock file is there by now. *)
Unlink(c) ==
    /\ pc[c] = "stale"
    /\ lock # NoLock
    /\ lock' = NoLock
    /\ raced' = (raced \/ ~IsStale)
    /\ Goto(c, "removed")
    /\ UNCHANGED <<owner, work, crashes>>

Recreate(c) ==
    /\ pc[c] = "removed"
    /\ lock = NoLock
    /\ Enter(c)

Outrun(c) ==
    /\ pc[c] = "removed"
    /\ lock # NoLock
    /\ Goto(c, "idle")
    /\ UNCHANGED <<file, work, ghost>>

-----------------------------------------------------------------------------
(* Under the lease, and how it ends *)

(* Mutant: the saved document records only what was sent last.             *)
ObserveAfresh(c, e) ==
    /\ Runs(c)
    /\ pc[c] = "holding"
    /\ e \notin mem[c]
    /\ mem' = [mem EXCEPT ![c] = {e}]
    /\ disk' = {e}
    /\ sent' = sent \cup {e}
    /\ repeated' = IF e \in sent THEN repeated \cup {e} ELSE repeated
    /\ UNCHANGED <<file, pc, held, ghost>>

(* The event is not in this call's copy of the document: it is sent, and   *)
(* the whole copy is saved.                                                *)
Observe(c, e) ==
    /\ Runs(c)
    /\ pc[c] = "holding"
    /\ e \notin mem[c]
    /\ mem' = [mem EXCEPT ![c] = @ \cup {e}]
    /\ disk' = mem[c] \cup {e}
    /\ sent' = sent \cup {e}
    /\ repeated' = IF e \in sent THEN repeated \cup {e} ELSE repeated
    /\ UNCHANGED <<file, pc, held, ghost>>

(* Calls leave: what they knew of the lease and the document is gone. *)
Forget(calls) ==
    /\ pc' = [c \in Call |-> IF c \in calls THEN "idle" ELSE pc[c]]
    /\ held' = [c \in Call |-> IF c \in calls THEN 0 ELSE held[c]]
    /\ mem' = [c \in Call |-> IF c \in calls THEN {} ELSE mem[c]]
    /\ UNCHANGED <<disk, sent, repeated>>

(* The release function unlinks the lock file by name, whoever made it. *)
Release(c) ==
    /\ Runs(c)
    /\ pc[c] = "holding"
    /\ Forget({c})
    /\ raced' = (raced \/ (lock # NoLock /\ owner # c))
    /\ lock' = NoLock
    /\ UNCHANGED <<owner, crashes>>

CallsOf(p) == {c \in Call : HostOf[c] = p}

(* "observer lease unavailable": the lock file was gone when this call     *)
(* came to stat or unlink it.  The timer awaits no poll, so that a poll's  *)
(* exception ends the process; a webhook's only ends the call.             *)
Throw(c) ==
    /\ pc[c] \in {"found", "stale"}
    /\ lock = NoLock
    /\ Forget(IF c \in Poll THEN CallsOf(HostOf[c]) ELSE {c})
    /\ UNCHANGED <<file, ghost>>

(* The process dies and is started again; its lock file stays. *)
Crash(p) ==
    /\ crashes < MaxCrashes
    /\ crashes' = crashes + 1
    /\ Forget(CallsOf(p))
    /\ UNCHANGED <<file, raced>>

Tick ==
    /\ \A c \in Call : pc[c] = "holding" => held[c] < CallTicks
    /\ lock' = IF lock \in 0..LeaseTicks THEN lock + 1 ELSE lock
    /\ held' = [c \in Call |-> IF pc[c] = "holding" THEN held[c] + 1 ELSE 0]
    /\ UNCHANGED <<owner, pc, mem, disk, sent, repeated, ghost>>

-----------------------------------------------------------------------------
Acquire(c) ==
    \/ Create(c) \/ Find(c)
    \/ Respect(c) \/ Expire(c) \/ Throw(c)
    \/ Unlink(c) \/ Recreate(c) \/ Outrun(c)

Next ==
    \/ \E c \in Call : Acquire(c) \/ Release(c) \/ \E e \in Events : Observe(c, e)
    \/ \E p \in Process : Crash(p)
    \/ Tick

(* A synchronous acquireLease runs to its end, the timer starts polls      *)
(* again and again, every call releases in its finally block, time passes. *)
Fairness ==
    /\ \A c \in Poll : WF_vars(Acquire(c))
    /\ \A c \in Call : WF_vars(pc[c] # "idle" /\ Acquire(c)) /\ WF_vars(Release(c))
    /\ WF_vars(Tick)

Spec == Init /\ [][Next]_vars /\ Fairness

-----------------------------------------------------------------------------
(* Properties *)

Holding == {c \in Call : pc[c] = "holding"}

(* Two calls work under the lease at once only after a lock file was       *)
(* unlinked that was neither stale nor the unlinking call's own: with      *)
(* calls shorter than the lease, the stat and the unlink of a takeover are *)
(* its only gap (state.ts 64-78).                                          *)
ExclusiveUntilRaced == ~raced => \A c, d \in Holding : c = d

(* No event is sent twice before that, in however many processes, polls    *)
(* and webhooks, crashes and takeovers (state.ts 58-80).                   *)
SentOnceUntilRaced == ~raced => repeated = {}

(* The lease left by a dead process does not stop the observer for ever:   *)
(* a later poll takes it over (state.ts 66-70).                            *)
OrphanIsTakenOver ==
    (lock # NoLock /\ Holding = {}) ~> (lock = NoLock \/ Holding # {})

(* No event is sent twice at all.                                          *)
SentOnce == repeated = {}

-----------------------------------------------------------------------------
(* The inductive invariant behind exclusion *)

(* The lock file is that of the one call that holds the lease, and exactly *)
(* as old as its work: it cannot look stale to anybody.                    *)
HolderOwnsLock ==
    \A c \in Holding : lock = held[c] /\ owner = c

(* What was sent is in the document, and in the copy of the call at work.  *)
SentIsOnDisk ==
    /\ sent \subseteq disk
    /\ \A c \in Holding : mem[c] = disk

(* A call counts its time from the moment it has the lease; until the race *)
(* the lock tells who works, and the document what was sent                *)
(* (state.ts 58-111).                                                      *)
LeaseInv ==
    /\ \A c \in Call \ Holding : held[c] = 0
    /\ ~raced => HolderOwnsLock /\ SentIsOnDisk /\ repeated = {}
=============================================================================
