SPECIFICATION Spec
CONSTANTS
  main = main
  leaf = leaf
  puts = puts
  even = even
  odd = odd
  NoThread = NoThread
  NoFn = NoFn
  External <- Native1
  Functions <- ChainFunctions
  Calls <- ChainCalls
  Threads = {t1}
  Lazy = TRUE
  FarCalls = {}
  Operations = {"freeStubbed"}
  MaxFreed = 2
INVARIANT CodeIsReady
