CONSTANTS
  W = 8
  EndSym = 37
  Start = 64
  Limit = 112
  Incs <- MCIncs
  KernelMayFail = FALSE
  MaxCalls = 6
SPECIFICATION Spec
INVARIANTS SbrkAligned SbrkBlockInHeap HeapBreakCoherent
PROPERTY SbrkFreshBlock
