SPECIFICATION Spec
CONSTANTS
  main = main
  f = f
  g = g
  Func = {main, f, g}
  NumData = 4
  Programs <- SmallPrograms
  Memories <- SmallMemories
  UnsignedMod = 16
INVARIANTS
  NoConflict
  DegreesCount
  EveryoneHasAPlace
  SpilledForAReason
  FitsInMemory
  AllocatorInv
PROPERTIES
  ColorableIsColored
  Returns
