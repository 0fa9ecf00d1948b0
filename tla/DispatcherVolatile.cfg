SPECIFICATION FairSpec
CONSTANTS
  c1 = c1  d1 = d1  c2 = c2  k1 = k1  k2 = k2
  None = None
  Threads = {p, q, r}
  Commands = {c1, c2}
  Keys = {k1, k2}
  KeyOf <- OneEach
  Results = {ok}
  Persistent = FALSE
  MaxMemoryOutcomes = 1
  MaxConcurrentDispatches = 1
  MaxCalls = 4
  MaxResets = 0
INVARIANTS ReexecutedOnlyIfForgotten
PROPERTIES DuplicatesReturn
CHECK_DEADLOCK FALSE
