CONSTANTS
  b1 = b1
  b2 = b2
  BgAgent <- MCOneAgent
  Asking <- MCOneAgent
  EventCap = 1
  Replies <- MCLoopReplies
  MaxIter = 2
  MaxCycles = 1
SPECIFICATION FairSpec
INVARIANTS
  LoopTypeOK
  ToolResultsComplete
  ApprovedBeforeRun
PROPERTIES
  EveryRunSettles
CHECK_DEADLOCK FALSE
