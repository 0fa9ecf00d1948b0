SPECIFICATION Spec
CONSTANTS
  t1 = t1  t2 = t2  a = a  b = b  r1 = r1
  NoValue = NoValue  Cleared = Cleared
  Targets <- TwoTargets
  Values = {a}
  Routes = {r1}
  RouteOf <- SharedRoute
  NativeIdempotency = {r1}
  ImmediateTiming = FALSE
  RetryDelays <- NoDelay
  OverallTimeout = 1
  MaxRetainedCommands = 2
  FeedbackCapacity = 1
  FailureStatuses = {"Failed"}
  MaxCommands = 3
  MaxTime = 0
  MaxRevision = 1
  MaxUnknown = 0
  MaxRestarts = 1
INVARIANTS WithinCapacity
