SPECIFICATION MCSpec
CONSTANTS
  WordBits = 8
  IntBits = 7
  StackThreshold = 22
  StackSize = 30
  MaxStackSize = 240
  NGlobals = 6
  Programs <- MCPrograms
INVARIANTS
  MachineSound
  ComputesMeaning
PROPERTIES
  Terminates
