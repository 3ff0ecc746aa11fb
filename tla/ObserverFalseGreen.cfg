\* An older success on the page of a newer failure.
CONSTANTS
  RedEvents = {r1}
  GreenEvents = {g1}
  QuietEvents = {}
  NoEvent = NoEvent
  PruneAbove <- NeverPruned
  PruneKeep <- NeverPruned
  DeliveryBackoff = 1
  ProviderBackoff = 1
  MaxBackoff = 2
  PageSize = 2
  MaxPages = 1
  Overlap = 0
  Lookback <- WholeHistory
  StaleAfter <- AlwaysFresh
  MaxPayloadKiB = 32
  MaxEnvelopeKiB = 64
  AnalysisMayOverflow = FALSE
  WebhooksOn = FALSE
  MaxRuns = 2
  MaxAttempts = 1
  MaxClock = 2
  MaxFaults = 0
SPECIFICATION
  Spec
INVARIANTS
  RecoveryFollowsIncident
