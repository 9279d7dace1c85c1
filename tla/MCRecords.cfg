CONSTANTS
  Procs = {"p1", "p2"}
  Prompts = {"a", "b"}
  MaxSize = 1
  MaxPrompts = 4
  Sessions = {"s1", "s2"}
  Trees = {"w1", "w2"}
  RepoRoot = "repo"
  Calls = {"c1", "c2"}
  Requests = {"r"}
  Replies <- MCReplies
  Agents = {"main", "sub", "other"}
  Stores = {"s1", "s2"}
  StoreOf <- MCStoreOf
  Needs = {"x"}
  Grants = {"g"}
  ClearKeep = 1
  CompactKeep = 3
  Sizes = {1}
  MaxExcess = 1
  MaxNodes = 10
  MaxCompactions = 2
  MaxTurnsAsked = 2
  MaxText = 2
  MaxCalls = 1
  MaxAnswers = 2
  MaxTraces = 2
  MaxLost = 1
SPECIFICATION MCSpec
INVARIANTS
  
  CacheInv
  
  ConversationInv
  TraceInv
PROPERTIES
  LocksHold
CHECK_DEADLOCK FALSE
