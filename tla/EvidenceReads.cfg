\* One call of each tool, with a limit of two wherever the code has one.
CONSTANTS
  Null = Null
  Malformed = Malformed
  MaxAlerts = 2
  MaxSeries = 2
  MaxSamples = 2
  QueryLimit = 2
  SeriesLimit = 2
  SampleLimit = 2
  SpanLimit = 2
  MaxItems = 2
  Window <- Seconds
  HealthRules <- Rules
  Templates = {"errors"}
  QueryIds <- Queries
  Asks <- AllAsks
  Payloads <- Answers
  Deployments <- Both
  PanelBytes = 1
  DashboardBytes = 2
  ProviderBytes = 2
SPECIFICATION
  Spec
INVARIANTS
  SilenceIsSaid
  NothingIsLeftOut
PROPERTIES
  ReadsEnd
CHECK_DEADLOCK
  FALSE
