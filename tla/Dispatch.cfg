SPECIFICATION DispatchFairSpec
CONSTANTS
  Table <- Ranks
  UnknownAs = "hard"
  Threshold = 2
  Base = 1
  Cap = 2
  DecayAfter = 2
  Procs = {1, 2}
  NoProc = 0
  Gone = 9
  Configs <- AllConfigs
  Percents <- SomePercents
  MinInterval = 1
  LockWait = 2
  LockStale = 1
  MaxClock = 4
INVARIANTS
  ExitIsHonest ForceProof StrikeLatched OneGLMChild ExclusionIsEarned AutoFindsALane
 
CHECK_DEADLOCK FALSE
