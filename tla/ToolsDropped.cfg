SPECIFICATION IndexSpec
CONSTANTS
  Paths <- SomeRoots
  Plugins = {"p", "q"}
  PackOf <- Packs
  KindOf <- Kinds
  Inside <- InClaude
  Version <- Versions
  SkillsAt <- Skills
  Dim <- Dimensions
  Runs = {1}
  NoRun = 0
  IndexConfigs <- ToolsBeside
PROPERTIES
  FlatRootsStay
CHECK_DEADLOCK FALSE
