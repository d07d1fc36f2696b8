CONSTANTS
  Gateways     <- MCGateways
  Routes       <- MCRoutes
  GatewaySpecs <- MCGatewaySpecs
  RouteSpecs   <- MCRouteSpecs
  OurClasses   = {"ours"}
  IPs          = {"ip1", "ip2"}
  FirstIP      = "none"
  Removable    = {"r1"}
  MaxEvents    = 1
  RareEvents   = {"error", "restart", "resync", "platform"}
  Absent       = Absent
  NoIP         = "none"
  AnyHost      = "any"

SPECIFICATION FairSpec

PROPERTY ComesToRest

CHECK_DEADLOCK FALSE
