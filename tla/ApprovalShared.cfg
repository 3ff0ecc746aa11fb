\* Three calls of two servers, one fault of any kind.
CONSTANTS
  c1 = c1
  c2 = c2
  c3 = c3
  p1 = p1
  p2 = p2
  a1 = a1
  a2 = a2
  a3 = a3
  a4 = a4
  r1 = r1
  r2 = r2
  r3 = r3
  Call = {c1, c2, c3}
  Process = {p1, p2}
  HostOf <- TwoServers
  Submissions <- Submitted
  Approval = {a1, a2, a3, a4}
  RequestOf <- Requests
  AttemptOf <- FirstAttempt
  Nobody = Nobody
  MaxAttempts = 3
  MaxFaults = 1
SPECIFICATION
  Spec
INVARIANTS
  SpentOnceUntilRaced
  OneActionUntilRaced
  RequestsAreOnRecord
  RerunsApprovedAttempt
  AuditIsTrue
PROPERTIES
  EveryCallEnds
CHECK_DEADLOCK
  FALSE
