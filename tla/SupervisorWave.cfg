SPECIFICATION Spec
CONSTANTS
  NumSteps = 3
  Deps <- FanInDeps
  Hint <- RoutedPair
  Verifiers = {3}
  Lanes = {"claude", "local"}
  Local = "local"
  NoLane = ""
  Pids = {"c", "r"}
  Child = "c"
  NoPid = "0"
  MaxConcurrency = 2
  ReLaneMaxDepth = 1
  RunClasses = {"ok", "api_error"}
  Modes = {"resume"}
  MaxFaults = 1
  MaxFreezes = 0
INVARIANTS
  NoSecondMarkedRun DepsHold DoneIsComplete BlockedIsPublished
CHECK_DEADLOCK FALSE
