\* One run that is re-run twice, two possible recoveries, two faults.
CONSTANTS
  RedEvents = {r1}
  GreenEvents = {g1, g2}
  QuietEvents = {}
  NoEvent = NoEvent
  PruneAbove <- NeverPruned
  PruneKeep <- NeverPruned
  DeliveryBackoff = 1
  ProviderBackoff = 1
  MaxBackoff = 2
  PageSize = 2
  MaxPages = 1
  Overlap = 0
  Lookback <- WholeHistory
  StaleAfter <- AlwaysFresh
  MaxPayloadKiB = 32
  MaxEnvelopeKiB = 64
  AnalysisMayOverflow = FALSE
  WebhooksOn = FALSE
  MaxRuns = 1
  MaxAttempts = 3
  MaxClock = 2
  MaxFaults = 2
SPECIFICATION
  Spec
INVARIANTS
  GreenNeedsRed
  OneRecoveryIdentity
