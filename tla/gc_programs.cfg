CONSTANTS
  N = 3
  NF = 1
  GraySize = 2
  GrayLimit = 2
  MaxRoots = 2
  MaxFinal = 1
  Uses <- Features
SPECIFICATION ProgramsSpec
INVARIANTS
  WeakNotDangling
  WeakListIntact
  FinalValuesKept
PROPERTIES
  ErasesOnlyDead
  FinalisesOnlyUnreachable
