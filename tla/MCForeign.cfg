CONSTANTS
  Gateways     <- MCGateways
  Routes       <- MCRoutes
  GatewaySpecs <- MCGatewaySpecs
  RouteSpecs   <- MCRouteSpecs
  OurClasses   = {"ours"}
  IPs          = {"ip1"}
  FirstIP      = "ip1"
  Removable    = {}
  MaxEvents    = 1
  RareEvents   = {}
  Absent       = Absent
  NoIP         = "none"
  AnyHost      = "any"

SPECIFICATION Spec

INVARIANT ForeignNotServed

CHECK_DEADLOCK FALSE
