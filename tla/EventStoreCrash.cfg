SPECIFICATION Spec
CONSTANTS
  Fail = Fail
  Bodies <- SetOrErase
  NameWithFile = TRUE
  MaxBatch = 2
  MaxRecords = 4
  MaxStops = 2
INVARIANTS Consistent FlushedSurvives RetentionKeepsProjection RefusesOnlyUnflushed
PROPERTIES IsEventStore
CHECK_DEADLOCK FALSE
