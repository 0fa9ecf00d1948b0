SPECIFICATION Spec
CONSTANTS
  Types = {T}
  T = T
  Names = {n1, n2}
  n1 = n1  n2 = n2
  Systems = {s1}
  s1 = s1
  MaxBehaviours = 2
  MaxComponentSlots = 2
  MaxGeneration = 2
  MaxIntents = 2
  MaxRevision = 4
  MaxUnrecorded = 1
SYMMETRY AnyName
INVARIANTS IntentsAuthorised MembershipFollowsAccess LifeIsRecorded
PROPERTIES HandlesAreFresh
