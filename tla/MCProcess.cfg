CONSTANTS
  Requests  = {"q1", "q2"}
  Handlers  = {"s1"}
  Configs   <- MCConfigs
  NoRequest = "none"
  ServerOf  <- MCServerOf

SPECIFICATION ProcessSpec

INVARIANTS
  TypeOK
  AnsweredByOneConfiguration
  ProcessTypeOK
  ExitTellsFailure

PROPERTY EndsAsAWhole

CHECK_DEADLOCK FALSE
