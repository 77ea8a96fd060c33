SPECIFICATION Spec
CONSTANTS
  NumSteps = 3
  Deps <- FanInDeps
  Hint <- CloudPair
  Verifiers = {}
  Lanes = {"claude", "codex", "local"}
  Local = "local"
  NoLane = ""
  Pids = {"c", "r"}
  Child = "c"
  NoPid = "0"
  MaxConcurrency = 2
  ReLaneMaxDepth = 1
  RunClasses = {"ok", "api_error"}
  Modes = {"resume"}
  MaxFaults = 1
  MaxFreezes = 0
PROPERTIES
  BlockStops
CHECK_DEADLOCK FALSE
