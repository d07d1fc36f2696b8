CONSTANTS
  Policies    = {"p1"}
  ConfigMaps  = {"c1"}
  Gateways    = {"g1", "g2"}
  PolicySpecs <- MCPolicySpecs
  OthersDo    <- MCOthersDo
  Data        <- MCData
  Removable   = {"p1", "c1"}
  MaxEvents   = 1
  RareEvents  = {"error", "restart"}
  Absent      = Absent

SPECIFICATION FairSpec

INVARIANT AncestorsExact

CHECK_DEADLOCK FALSE
