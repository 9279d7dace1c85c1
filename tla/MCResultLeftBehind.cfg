CONSTANTS
  b1 = b1
  b2 = b2
  BgAgent <- MCOneAgent
  Asking = {}
  EventCap = 1
  Replies <- MCBgReplies
  MaxIter = 2
  MaxCycles = 2
SPECIFICATION Spec
PROPERTIES
  NoResultLeftBehind
CHECK_DEADLOCK FALSE
