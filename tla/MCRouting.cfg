CONSTANTS
  Labels   <- MCLabels
  Strings  <- MCStrings
  Requests <- MCRequests
  Worlds   <- MCWorlds
  None     = None

SPECIFICATION Spec

INVARIANTS
  TypeOK
  HostsExact
  AcceptedIsServed
  ForwardedAsReferenced
  TransportOfOnePolicy
  RedirectKeepsRest

PROPERTY SameAnswersAgain
