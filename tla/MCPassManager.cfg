CONSTANTS
  dom = dom
  loops = loops
  simplify = simplify
  scev = scev
  basicaa = basicaa
  scevaa = scevaa
  licm = licm
  gvn = gvn
  instcombine = instcombine
  callers = callers
  rotate = rotate
  inline = inline
  callgraph = callgraph
  globalsmodref = globalsmodref
  aa = aa
  estimator = estimator
  noprofile = noprofile
  codegenprepare = codegenprepare
  placement = placement
  profile = profile
  Chosen = {dom, loops, simplify, scev, basicaa, scevaa, licm, gvn, instcombine, rotate, callers, inline, callgraph, globalsmodref}
  Kind <- Chosen
  ModuleLevel <- MCModuleLevel
  ForFunctions <- MCForFunctions
  Analysis <- MCAnalysis
  Interface <- MCInterface
  Default <- MCDefault
  Implements <- MCImplements
  Requires <- MCRequires
  Transitive <- MCTransitive
  Preserves <- MCPreserves
  FPPassManager = FPPassManager
  None = None
  NumFunctions = 2
  MaxAdded = 4
SPECIFICATION Spec
CHECK_DEADLOCK FALSE
INVARIANTS RequiredAreProvided NothingStaleIsAvailable NothingIsKept
PROPERTIES EverythingIsScheduled
