SPECIFICATION FairSpec
CONSTANTS
  t1 = t1  t2 = t2  a = a  b = b  r1 = r1
  NoValue = NoValue  Cleared = Cleared
  Targets <- OneTarget
  Values = {a, b}
  Routes = {r1}
  RouteOf <- OneRoute
  NativeIdempotency = {r1}
  ImmediateTiming = TRUE
  RetryDelays <- OneDelay
  OverallTimeout = 2
  MaxRetainedCommands = 1
  FeedbackCapacity = 1
  FailureStatuses = {"Failed"}
  MaxCommands = 1
  MaxTime = 2
  MaxRevision = 2
  MaxUnknown = 0
  MaxRestarts = 1
INVARIANTS ObservedIsReal
PROPERTIES ObservedAdvances PendingSettles
