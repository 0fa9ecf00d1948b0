SPECIFICATION Spec
CONSTANTS
  Behaviors = {b1}
  b1 = b1
  Types = {"Level"}
  DescribedTypes = {"Level"}
  Components = {c}
  c = c
  TypeOf <- AllLevels
  Values = {"low", "high", "bad"}
  BadValues = {"bad"}
  IntentNames = {n}
  n = n
  Unnamed = Unnamed
  ScriptFailures = {"RuntimeError"}
  Bytes <- SmallBytes
  Ceilings <- SmallCeilings
  Limits <- SmallLimits
  SizeofLuaValue = 2
  Schemas <- SomeSchemas
  LuaValues <- SomeValues
  InitialBindings = {}
  MaximumCachedCapabilityEntries = 1
  MaxCreatedIntents = 1
  MaxCancelledIntents = 1
  MaxWatches = 1
  MaxIntents = 1
  MaxBehaviours = 1
  MaxScriptEvidence = 1
  MaxRevision = 3
  MaxSlot = 2
  MaxInstance = 2
  main = main
  other = other
  ScriptNames = {main}
  NoName = NoName
  ScriptSets <- Edits
  MaxScriptSlot = 2
INVARIANTS CapabilitiesAreGranted SchemasAreSound
PROPERTIES StartsOnce NoChangeMissed
CHECK_DEADLOCK FALSE
