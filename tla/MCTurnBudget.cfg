CONSTANTS
  MaxTurns = 1
  Buffer = 3
  MaxCalls = 2
  EventCap = 3
SPECIFICATION FairSpec
INVARIANT BudgetInv
PROPERTIES
  NeverCutShort
  CallReturns
CHECK_DEADLOCK FALSE
