SPECIFICATION Spec
CONSTANTS
  main = main
  leaf = leaf
  puts = puts
  even = even
  odd = odd
  NoThread = NoThread
  NoFn = NoFn
  External <- Native1
  Functions <- RingFunctions
  Calls <- RingCalls
  Threads = {t1, t2}
  Lazy = FALSE
  FarCalls = {puts}
  Operations = {"free"}
  MaxFreed = 2
INVARIANTS
  EagerIsComplete
  CodeInv
