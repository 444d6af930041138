CONSTANTS
  Size = 4
  Bytes <- MCBytes
  Fills <- MCFills
SPECIFICATION Spec
INVARIANTS
  MemmoveCorrect
  MemcmpCorrect
  StrlenCorrect
