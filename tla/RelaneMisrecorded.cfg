SPECIFICATION Spec
CONSTANTS
  NumSteps = 2
  Deps <- ChainDeps
  Hint <- LocalFirst
  Verifiers = {}
  Lanes = {"claude", "codex", "local"}
  Local = "local"
  NoLane = ""
  Pids = {"c", "r"}
  Child = "c"
  NoPid = "0"
  MaxConcurrency = 2
  ReLaneMaxDepth = 1
  RunClasses = {"ok", "api_error"}
  Modes = {"resume"}
  MaxFaults = 1
  MaxFreezes = 0
INVARIANTS
  NoSecondPaidRun
CHECK_DEADLOCK FALSE
