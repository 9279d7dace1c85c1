CONSTANTS
  MaxTyped = 3
  MaxSessions = 2
  PastedTexts <- MCTexts
  MaxKeys = 2
  Widths = {4, 5}
  MaxRunes = 6
  Contents = {c1, c2}
  MaxRecent = 1
  MaxPieces = 2
  MaxHeld = 2
  MaxMessages = 2
  Words = {w1, w2}
  MaxWords = 2
  MaxCalls = 2
  MaxFaults = 1
  Lines = {l1, l2}
  MaxLen = 4
  Context = 1
SPECIFICATION MCSpec
SYMMETRY MCSymmetry
INVARIANTS
  ReaderInv
  KeysInv
  EntryInv
  DiffInv
PROPERTIES
  LineEdited
  
CHECK_DEADLOCK FALSE
