CONSTANTS
  Policies    = {"p1"}
  ConfigMaps  = {"c1"}
  Gateways    = {"g1", "g2"}
  PolicySpecs <- MCPolicySpecs
  OthersDo    <- MCOthersDo
  Data        <- MCData
  Removable   = {"p1", "c1"}
  MaxEvents   = 2
  RareEvents  = {"error", "restart"}
  Absent      = Absent

SPECIFICATION FairSpec

INVARIANTS
  TypeOK
  MirrorAtRest
  VerdictAtRest

PROPERTIES
  UsesSharedState
  ComesToRest

CHECK_DEADLOCK FALSE
