\* Two runs, polls and webhooks, stale and quiet runs, one fault of any kind,
\* and polls long enough to scan every page.
CONSTANTS
  RedEvents = {r1}
  GreenEvents = {g1}
  QuietEvents = {q1}
  NoEvent = NoEvent
  PruneAbove <- NeverPruned
  PruneKeep <- NeverPruned
  DeliveryBackoff = 1
  ProviderBackoff = 1
  MaxBackoff = 2
  PageSize = 1
  MaxPages = 3
  Overlap = 0
  Lookback <- WholeHistory
  StaleAfter = 1
  MaxPayloadKiB = 32
  MaxEnvelopeKiB = 64
  AnalysisMayOverflow = FALSE
  WebhooksOn = TRUE
  MaxRuns = 2
  MaxAttempts = 1
  MaxClock = 2
  MaxFaults = 1
SPECIFICATION
  Spec
INVARIANTS
  TypeOK
  AnalysisAtMostOnce
  EffectsAreRecorded
  RepeatedRedNeedsFault
  RedBeforeAnalysis
  EffectsInv
PROPERTIES
  OutcomeIsFinal
  ImplementsLedger
  CompleteScanPassesNoFailure
