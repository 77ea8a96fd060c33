SPECIFICATION Spec
CONSTANTS
  AuthorityTTL = 1
  FiveHours = 2
  DayLength = 3
  MonthLength = 4
  ThrottlePct = 80
  ExhaustPct = 95
  DropMaxAge = 1
  SevenDays = 4
  TenYears = 50
  GLM5hPrompts = 4
  GuessedCap = 2
  Floor = 1
  Jobs = {1, 2}
  Pollers = {1}
  LanesUsed = {"claude", "codex", "glm", "copilot", "groq", "nim"}
  Readings = {50, 100}
  Outcomes <- LaneAnswers
  PollEvery = 2
  FactsMaxAge = 2
  MaxWall <- LaneWall
  MaxEvents <- LaneEvents
  Procs = {1, 2}
  NoProc = 0
  Gone = 9
  Wait = 1
  StaleAge = 1
  Limit = 1
  Span = 2
  MaxAsks = 2
  MaxClock = 4
  MaxTrouble = 2
  Paths <- SomeRoots
  Plugins = {"p", "q"}
  PackOf <- Packs
  KindOf <- Kinds
  Inside <- InClaude
  Version <- Versions
  SkillsAt <- Skills
  Dim <- Dimensions
  Runs = {1, 2}
  NoRun = 0
  IndexConfigs <- SomeDisks
  Events = {"prompt"}
  Bins = {"b1", "b2"}
  InstallStarts <- Hosts
  Sessions = {1, 2}
  HookConfigs <- SomeHooks
  Slots = 2
  MinPrior = 3
  MinSpan = 2
  LoadTime = 1
  IdleTime = 1
  MaxHookClock = 4
INVARIANTS
  NeverLockedForever DropKeepsItsAge OnlyTheVendorCloses
  Exclusive RobbedOnlyAfterTrouble LimitHolds
  HookReadsTheJson OneVectorSpace
  TheirsAreKept OwnershipRecorded BytesComeBack RowsTellTheTruth
PROPERTIES
  DenialStands NoRewind TrialSpendIsKept MeasuredCapStays AsksEnd
  LastCopySurvives RootsAreKept
CHECK_DEADLOCK FALSE
