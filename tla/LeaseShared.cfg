\* Two processes, calls no longer than the lease, one crash.
CONSTANTS
  poll1 = poll1
  hook1 = hook1
  poll2 = poll2
  p1 = p1
  p2 = p2
  Call = {poll1, hook1, poll2}
  Poll = {poll1, poll2}
  Process = {p1, p2}
  HostOf <- TwoProcesses
  Events = {e1, e2}
  LeaseTicks = 2
  CallTicks = 2
  MaxCrashes = 1
SPECIFICATION
  Spec
INVARIANTS
  TypeOK
  ExclusiveUntilRaced
  SentOnceUntilRaced
  LeaseInv
PROPERTIES
  OrphanIsTakenOver
