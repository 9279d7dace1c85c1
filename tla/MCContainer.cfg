CONSTANTS
  Tools = {"t1"}
  Dirs = {"home", "wt"}
  Home = "home"
  Custom = {"v1"}
  MaxRuns = 2
  MaxWrites = 1
SPECIFICATION FairSpec
INVARIANTS
  ContainerInv
PROPERTIES
  OnlyRebuildForgets
  BootAndSwitchAnswer
CHECK_DEADLOCK FALSE
