\* One process whose call may outlast the lease.
CONSTANTS
  poll1 = poll1
  hook1 = hook1
  poll2 = poll2
  p1 = p1
  p2 = p2
  Call = {poll1, hook1}
  Poll = {poll1}
  Process = {p1}
  HostOf <- TwoProcesses
  Events = {e1, e2}
  LeaseTicks = 1
  CallTicks = 2
  MaxCrashes = 0
SPECIFICATION
  Spec
INVARIANTS
  SentOnce
