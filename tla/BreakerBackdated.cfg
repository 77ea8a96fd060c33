SPECIFICATION DispatchSpec
CONSTANTS
  Table <- Ranks
  UnknownAs = "hard"
  Threshold = 2
  Base = 1
  Cap = 2
  DecayAfter = 2
  Procs = {1, 2}
  NoProc = 0
  Gone = 9
  Configs <- JustBreaking
  Percents <- SomePercents
  MinInterval = 1
  LockWait = 2
  LockStale = 1
  MaxClock = 4
PROPERTY FailureExcludes
CHECK_DEADLOCK FALSE
