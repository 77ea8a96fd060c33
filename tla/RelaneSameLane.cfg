SPECIFICATION Spec
CONSTANTS
  NumSteps = 2
  Deps <- ChainDeps
  Hint <- AllClaude
  Verifiers = {}
  Lanes = {"claude", "codex", "local"}
  Local = "local"
  NoLane = ""
  Pids = {"c", "r"}
  Child = "c"
  NoPid = "0"
  MaxConcurrency = 2
  ReLaneMaxDepth = 1
  RunClasses = {"ok", "config_error"}
  Modes = {"resume"}
  MaxFaults = 0
  MaxFreezes = 0
INVARIANTS
  RetryLeavesLane
CHECK_DEADLOCK FALSE
