SPECIFICATION FairSpec
CONSTANTS
  NumSteps = 2
  Deps <- ChainDeps
  Hint <- LocalLast
  Verifiers = {}
  Lanes = {"claude", "local"}
  Local = "local"
  NoLane = ""
  Pids = {"c", "r"}
  Child = "c"
  NoPid = "0"
  MaxConcurrency = 2
  ReLaneMaxDepth = 1
  RunClasses = {"ok", "api_error"}
  Modes = {"sweep"}
  MaxFaults = 1
  MaxFreezes = 1
PROPERTIES
  Settles
CHECK_DEADLOCK FALSE
