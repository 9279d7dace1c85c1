CONSTANTS
  b1 = b1
  b2 = b2
  b3 = b3
  BgAgent <- MCBgAgent
  Asking <- MCAsking
  EventCap = 2
SPECIFICATION BgFairSpec
INVARIANTS
  BgTypeOK
  DoneStatusDelivered
  ReportedOnce
PROPERTIES
  MailboxSpec
  AgentsEnd
