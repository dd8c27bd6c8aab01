SPECIFICATION Spec
CONSTANTS
  main = main
  leaf = leaf
  puts = puts
  even = even
  odd = odd
  NoThread = NoThread
  NoFn = NoFn
  External <- Native1
  Functions <- PairFunctions
  Calls <- PairCalls
  Threads = {t1, t2}
  Lazy = TRUE
  FarCalls = {}
  Operations = {"freeUnlocked"}
  MaxFreed = 1
PROPERTY FreesBetweenEmissions
