CONSTANTS
  Gateways     <- MCGateways
  Routes       <- MCRoutes
  GatewaySpecs <- MCOurSpecs
  RouteSpecs   <- MCHostSpecs
  OurClasses   = {"ours"}
  IPs          = {"ip1"}
  FirstIP      = "ip1"
  Removable    = {}
  MaxEvents    = 1
  RareEvents   = {}
  Absent       = Absent
  NoIP         = "none"
  AnyHost      = "any"

SPECIFICATION Spec

INVARIANT AttachedExact

CHECK_DEADLOCK FALSE
