\* A status and an analysis, two attempts a call, a second call, a restart.
CONSTANTS
  Event = {"red", "analysis"}
  RouteOf <- StatusThenAnalysis
  Options <- TheOptions
  MaxCalls = 2
  MaxCrashes = 1
SPECIFICATION
  Spec
PROPERTIES
  KeepsPromise
\* The calls and restarts are bounded, so the instance stops.
CHECK_DEADLOCK FALSE
