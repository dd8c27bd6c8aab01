CONSTANTS
  dom = dom
  loops = loops
  simplify = simplify
  scev = scev
  basicaa = basicaa
  scevaa = scevaa
  licm = licm
  gvn = gvn
  instcombine = instcombine
  callers = callers
  rotate = rotate
  inline = inline
  callgraph = callgraph
  globalsmodref = globalsmodref
  aa = aa
  estimator = estimator
  noprofile = noprofile
  codegenprepare = codegenprepare
  placement = placement
  profile = profile
  Chosen = {dom, loops, simplify, estimator, noprofile, codegenprepare, placement}
  Kind <- Chosen
  ModuleLevel <- MCModuleLevel
  ForFunctions <- MCForFunctions
  Analysis <- MCAnalysis
  Interface <- MCInterface
  Default <- MCDefault
  Implements <- MCImplements
  Requires <- MCRequires
  Transitive <- MCTransitive
  Preserves <- MCPreserves
  FPPassManager = FPPassManager
  None = None
  NumFunctions = 2
  MaxAdded = 5
SPECIFICATION Spec
CHECK_DEADLOCK FALSE
INVARIANT RequiredAreReady
