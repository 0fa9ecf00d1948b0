SPECIFICATION Spec
CONSTANTS
  Owners = {"ann", "huge"}
  Sources = {"code", "long"}
  TextBytes <- MCTextBytes
  MalformedTexts = {}
  Components = {"c", "d", "s"}
  ScriptComponents = {"s"}
  ValuesOf <- MCValuesOf
  ValueBytes <- MCValueBytes
  BadValues = {"bad"}
  MismatchedValues = {"odd"}
  GrantLists <- MCGrantLists
  SuiteDefinitions <- MCSuites
  Work <- MCWork
  LifecycleStatuses = {"None", "Success", "RuntimeError"}
  MaxActiveScopes = 1
  MaxProposals = 1
  MaxEvaluations = 1
  MaxScopeCapabilities = 2
  MaxLabelBytes = 6
  MaxSourceBytes = 3
  MaxManifestBytes = 3
  LuaManifestMaxLogicalBytes = 5
  MaxEvaluationCases = 2
  MaxEvaluationFrames = 2
  MaxEvaluationRecords = 8
  MaxEvaluationRecordBytes = 9
  MaxEvaluationResponseBytes = 7
  MaxSessionPayloadBytes = 36
  MaxIdValue = 1
  MaxTime = 0
  MaxSlot <- MCMaxSlot
  MaxScopeRevision = 2
INVARIANTS PayloadIsSum EvaluatedAsProposed PassedMeansEverything TotalsAreTrue
CHECK_DEADLOCK FALSE
