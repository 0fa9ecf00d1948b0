SPECIFICATION Spec
CONSTANTS
  o1 = o1  o2 = o2
  Owners = {o1, o2}
  Targets = {t}
  Names = {n}
  NoName = NoName
  Priorities = {0, 1}
  Expirations = {1}
  Persistent = 0
  MaxIntents = 2
  MaxGeneration = 3
  MaxBuffered = 3
  MaxSequence = 4
INVARIANTS Consistent RecordsTellTheTruth SelectsNewestOfHighest
PROPERTIES IsIntentStore
SYMMETRY AnyOwner
