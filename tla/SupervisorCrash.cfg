SPECIFICATION Spec
CONSTANTS
  NumSteps = 2
  Deps <- ChainDeps
  Hint <- LocalLast
  Verifiers = {2}
  Lanes = {"claude", "codex", "local"}
  Local = "local"
  NoLane = ""
  Pids = {"c", "r"}
  Child = "c"
  NoPid = "0"
  MaxConcurrency = 2
  ReLaneMaxDepth = 1
  RunClasses = {"ok_notional", "deferred", "api_error"}
  Modes = {"resume"}
  MaxFaults = 2
  MaxFreezes = 0
INVARIANTS
  TypeOK OneDriver OutcomeHasReceipt ReLaneIsEarned RejectionIsFlagged
PROPERTIES
  ContractHolds OkIsKept
CHECK_DEADLOCK FALSE
