SPECIFICATION LibrariesSpec
CONSTANTS
  Libraries = {"num", "marshal", "bigarray", "threads"}
  BN_DIGIT_SIZE = 4
  Shapes <- MCShapes
  BigZs <- MCCanonical
  Bases = {3, 8, 10, 15}
  Numerals <- MCNumerals
  INITIAL_EXTERN_TABLE_SIZE_LOG2 = 2
  INITIAL_EXTERN_BLOCK_SIZE = 24
  INITIAL_OFFSET_MAX = 8
  Shared8 = 2
  Shared16 = 3
  Checksum <- MCChecksum
  Max_wosize = 12
  Page_words = 8
  KnownCustom <- MCKnown
  Agents = {1, 2}
  Heaps <- MCHeaps
  Sources <- MCSources
  Remote <- MCRemote
  Cuts = {0, 10, 22}
  Buffers = {10, 23}
  Finalisers = FALSE
  MaxMarshalCalls = 2
  MaxRaises = 1
  MAX_NUM_DIMS = 2
  MaxArrays = 3
  MaxArrayCalls = 4
  NewArrays <- MCNewArrays
  External <- MCExternal
  NewMappings <- MCNewMappings
  FileSize = 6
  Garbage = {170}
  Dims <- MCDims
  Inds <- MCInds
  Ranges <- MCRanges
  StoredValues <- MCStored
  Threads = {1, 2}
  Main = 1
  Chans = {c1, c2}
  Budgets <- MCBudgets
INVARIANTS
  NatExact
  BzExact
  MessagesExact
  InputFaithful
  ArrayMemorySound
  RootsComplete
  MasterLock
  SignalsHandled
  LocksAndJoins
PROPERTIES
  ImplementsViews
CHECK_DEADLOCK FALSE
SYMMETRY Symm
