SPECIFICATION Spec
CONSTANTS
  main = main
  leaf = leaf
  puts = puts
  even = even
  odd = odd
  NoThread = NoThread
  NoFn = NoFn
  External <- Native1
  Functions <- PairFunctions
  Calls <- PairCalls
  Threads = {t1, t2}
  Lazy = TRUE
  FarCalls = {}
  Operations = {"free", "orStub"}
  MaxFreed = 1
INVARIANTS
  CodeIsReady
  NoBodyIsLost
  MapAgreesWithRecord
PROPERTIES
  CompilesOnlyTheOne
  RunsTheProgram
