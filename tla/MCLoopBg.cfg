CONSTANTS
  b1 = b1
  b2 = b2
  BgAgent <- MCTwoAgents
  Asking = {}
  EventCap = 1
  Replies <- MCBgReplies
  MaxIter = 3
  MaxCycles = 2
SPECIFICATION Spec
INVARIANTS
  IterationBudget
  ToldOnce
  OrderlyEnd
CHECK_DEADLOCK FALSE
