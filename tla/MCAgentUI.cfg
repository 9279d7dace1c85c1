CONSTANTS
  MaxTurns = 2
  MaxAsks = 1
  MaxDrain = 2
  EventCap = 2
SPECIFICATION FairSpec
INVARIANTS
  TypeOK
  ReportedNodeAdopted
  AnswerFitsRequest
PROPERTIES
  ConversationKept
  TurnsSettle
CHECK_DEADLOCK FALSE
