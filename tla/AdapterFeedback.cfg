SPECIFICATION FairSpec
CONSTANTS
  Values = {"low", "over"}
  Normalize <- MCNormalize
  Behaviors <- MCBehaviors
  NativeIdempotency = TRUE
  MaxDuplicateReports = 2
  MaxPendingReports = 2
  MaxCachedOutcomes = 1
  MaxTime = 1
  MaxDeviceRevision = 2
  MaxCommand = 2
  MaxDispatches = 2
  Capacity = 1
  MaxEpoch = 2
INVARIANTS EveryChangeIsReported EvidenceAgrees ExecutedOnce
PROPERTIES DueIsDelivered
CHECK_DEADLOCK FALSE
