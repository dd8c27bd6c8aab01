SPECIFICATION Spec
CONSTANTS
  MemWords = 32
  PageWords = 16
  DefaultCodeSlabSize = 16
  PoisonMemory = TRUE
  RequestSizes = {0, 11}
  EmitSizes = {1, 5, 16}
  SpaceSizes = {2}
  Alignments = {4}
INVARIANTS
  CheckInvariants
  AllFreeAgain
  IInv
PROPERTIES
  GrantsWhatIsAsked
  HeapSpec
  MapsOnlyWhenFull
  SearchTerminates
CHECK_DEADLOCK FALSE
VIEW MemView
