CONSTANTS
  Callers = {"c1", "c2", "c3"}
  Probe = "probe"
SPECIFICATION CpslSpec
INVARIANTS
  CpslInv
PROPERTIES
  CallsComeBack
CHECK_DEADLOCK FALSE
