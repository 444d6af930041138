CONSTANTS
  W = 8
  EndSym = 37
  Start = 64
  Limit = 112
  Incs <- MCIncs
  KernelMayFail = TRUE
  MaxCalls = 6
SPECIFICATION Spec
INVARIANT SbrkBlockInHeap
