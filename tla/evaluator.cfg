CONSTANTS
  MaxActs = 9
  MaxTops = 2
SPECIFICATION Spec
CHECK_DEADLOCK FALSE
INVARIANTS
  TypeOK
  ScopeFollowsCalls
  LocationsFollowCalls
  StaticFollowsTypes
PROPERTY
  SignalReachesTarget
