SPECIFICATION Spec
CONSTANTS
  Chunks <- Anywhere
  First <- Mid
  Sizes = {1, 2}
CHECK_DEADLOCK FALSE
INVARIANTS
  HeapTiled
  AddressOrdered
  NoAdjacentFree
  FreeListExact
PROPERTIES
  AllocatorSpec
