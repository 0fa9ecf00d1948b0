SPECIFICATION Spec
CONSTANTS
  c1 = c1  d1 = d1  c2 = c2  k1 = k1  k2 = k2
  None = None
  Threads = {p, q}
  Commands = {c1, d1, c2}
  Keys = {k1, k2}
  KeyOf <- ReusedKey
  Results = {ok, refused}
  Persistent = TRUE
  MaxMemoryOutcomes = 1
  MaxConcurrentDispatches = 2
  MaxCalls = 4
  MaxResets = 1
INVARIANTS Consistent AnswersAgree
PROPERTIES StoredIsNotReexecuted
SYMMETRY AnyThread
CHECK_DEADLOCK FALSE
