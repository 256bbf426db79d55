CONSTANTS
  N = 3
  NF = 1
  GraySize = 2
  GrayLimit = 2
  MaxRoots = 3
  MaxFinal = 0
  Uses <- PlainProgram
SPECIFICATION SliceSpec
INVARIANTS TypeOK NoLiveFreed HeapPure GrayStack PhaseColors
PROPERTIES GarbageFreed
