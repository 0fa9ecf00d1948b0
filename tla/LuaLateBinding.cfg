SPECIFICATION Spec
CONSTANTS
  Behaviors = {b1}
  b1 = b1
  Types = {"Level", "Mode"}
  DescribedTypes = {"Level"}
  Components = {c, d}
  c = c  d = d
  TypeOf <- LevelAndMode
  Values = {"low", "bad"}
  BadValues = {"bad"}
  IntentNames = {n}
  n = n
  Unnamed = Unnamed
  ScriptFailures = {"RuntimeError"}
  Bytes <- SmallBytes
  Ceilings <- SmallCeilings
  Limits <- SmallLimits
  SizeofLuaValue = 2
  Schemas = {}
  LuaValues = {}
  InitialBindings = {"Level"}
  MaximumCachedCapabilityEntries = 1
  MaxCreatedIntents = 1
  MaxCancelledIntents = 1
  MaxWatches = 1
  MaxIntents = 1
  MaxBehaviours = 1
  MaxScriptEvidence = 1
  MaxRevision = 3
  MaxSlot = 2
  MaxInstance = 1
  main = main
  other = other
  ScriptNames = {main}
  NoName = NoName
  ScriptSets <- Edits
  MaxScriptSlot = 2
INVARIANTS CapabilitiesAreCurrent
CHECK_DEADLOCK FALSE
