CONSTANTS
  Gateways     <- MCGateways
  Routes       <- MCRoutes
  GatewaySpecs <- MCGatewaySpecs
  RouteSpecs   <- MCRouteSpecs
  OurClasses   = {"ours"}
  IPs          = {"ip1"}
  FirstIP      = "ip1"
  Removable    = {"g1", "r1"}
  MaxEvents    = 2
  RareEvents   = {"error", "restart"}
  Absent       = Absent
  NoIP         = "none"
  AnyHost      = "any"

SPECIFICATION Spec

INVARIANTS
  TypeOK
  MirrorAtRest
  RouteShared
  ObservedAtRest

PROPERTIES
  StatusMovesForward
  UsesSharedState

CHECK_DEADLOCK FALSE
