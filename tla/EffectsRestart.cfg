SPECIFICATION Spec
CONSTANTS
  t1 = t1  t2 = t2  a = a  b = b  r1 = r1
  NoValue = NoValue  Cleared = Cleared
  Targets <- OneTarget
  Values = {a, b}
  Routes = {r1}
  RouteOf <- OneRoute
  NativeIdempotency = {}
  ImmediateTiming = FALSE
  RetryDelays <- OneDelay
  OverallTimeout = 2
  MaxRetainedCommands = 2
  FeedbackCapacity = 1
  FailureStatuses = {}
  MaxCommands = 2
  MaxTime = 2
  MaxRevision = 1
  MaxUnknown = 1
  MaxRestarts = 1
INVARIANTS TypeOK ActiveIsLatest RestoreIsFaithful WriteAhead NoBlindRedispatch
PROPERTIES AttemptsAreFresh
SYMMETRY AnyValue
