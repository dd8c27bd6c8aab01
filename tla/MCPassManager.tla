---------------------------- MODULE MCPassManager ----------------------------
(***************************************************************************)
(* Pass kinds after those LLVM has, an instance's choice of them: a        *)
(* dominator tree, loop information computed from it, scalar evolution on  *)
(* top of both and an alias analysis on top of that, loop simplification   *)
(* as a required transform, a call graph and an alias analysis of the      *)
(* module, an estimated profile and one without any information, and       *)
(* passes that use and invalidate them. Two kinds LLVM has not, but the    *)
(* code is there for them: a function pass that requires a module pass     *)
(* (callers), and one that preserves the loops but not the dominator tree  *)
(* (rotate), as code generation's preparation does profile and loops.      *)
(***************************************************************************)
EXTENDS PassManager, TLC

CONSTANTS dom, loops, simplify, scev, basicaa, scevaa, licm, gvn, instcombine, rotate,
          callers, inline, callgraph, globalsmodref, aa,
          estimator, noprofile, codegenprepare, placement, profile,
          Chosen  \* the kinds of the instance

MCModuleLevel == Chosen \cap {inline, callgraph, globalsmodref}
MCForFunctions == Chosen \ (MCModuleLevel \cup {callers})
MCAnalysis == Chosen \cap {dom, loops, scev, basicaa, scevaa, callgraph, globalsmodref,
                         estimator, noprofile}
Defaults == (aa :> basicaa) @@ (profile :> noprofile)
MCInterface == {i \in DOMAIN Defaults : Defaults[i] \in Chosen}
MCDefault == [i \in MCInterface |-> Defaults[i]]
MCImplements == [k \in Chosen |->
  CASE k \in {basicaa, scevaa, globalsmodref} -> {aa}
    [] k \in {estimator, noprofile} -> {profile}
    [] OTHER -> {}]
MCRequires == [k \in Chosen |->
  CASE k = loops -> <<dom>>
    [] k = simplify -> <<dom, loops>>
    [] k = scev -> <<loops, dom>>
    [] k = scevaa -> <<scev>>
    [] k = estimator -> <<loops>>
    [] k = placement -> <<profile>>
    [] k = licm -> <<simplify, aa, dom, loops>>
    [] k = gvn -> <<dom, aa>>
    [] k \in {inline, globalsmodref} -> <<callgraph>>
    [] k = callers -> <<dom, callgraph>>
    [] OTHER -> <<>>]
MCTransitive == [k \in Chosen |->
  CASE k = scev -> {loops, dom} [] k = scevaa -> {scev} [] OTHER -> {}]

MCPreserves == [k \in Chosen |-> (Chosen \cup MCInterface) \cap
  CASE k \in MCAnalysis \cup {callers} -> Chosen \cup MCInterface
    [] k = simplify -> {dom, loops, scev, aa}
    [] k = licm -> {dom, loops, simplify, scev, aa}
    [] k = gvn -> {dom, aa}
    [] k = instcombine -> {dom, loops, simplify}
    [] k = rotate -> {loops}
    [] k = codegenprepare -> {profile}
    [] k = placement -> {dom, loops, simplify}
    [] k = inline -> {callgraph}
    [] OTHER -> {}]
==============================================================================
