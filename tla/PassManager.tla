----------------------------- MODULE PassManager -----------------------------
(***************************************************************************)
(* lib/VMCore/PassManager.cpp: passes are added to a top-level manager,    *)
(* which schedules the analyses they require before them and notes who     *)
(* uses each for the last time; then the managers run their passes, hand   *)
(* every pass the analyses it requires and free what is used no more.      *)
(*                                                                         *)
(* The top level is a PassManager, whose module pass manager runs module   *)
(* passes and function pass managers, or the FunctionPassManager of the    *)
(* code generator, which runs one function after another. A pass is a      *)
(* number, in the order of creation; Root is the manager everything starts *)
(* with, and a function pass manager inside it is a pass of it.            *)
(*                                                                         *)
(* Not modelled: immutable passes, call graph, loop and basic block pass   *)
(* managers, and module passes that require function analyses, which are   *)
(* run on the fly.                                                         *)
(***************************************************************************)
EXTENDS Naturals, Sequences

CONSTANTS
  Kind,          \* the passes there are, by their AnalysisID
  ModuleLevel,   \* those that are module passes; the others are function passes
  ForFunctions,  \* those for a FunctionPassManager, which has no module passes
  Analysis,      \* those that are analyses
  Interface,     \* analysis groups
  Default,       \* the pass that is created for a group
  Implements,    \* the groups a pass implements
  Requires,      \* the getRequiredSet of a pass ...
  Transitive,    \* ... of which these also as long as its own result is used
  Preserves,     \* the getPreservedSet, everything for setPreservesAll
  FPPassManager, None,
  NumFunctions, MaxAdded

ID == Kind \cup Interface
Ids(k) == {k} \cup Implements[k]
Creates(id) == IF id \in Interface THEN Default[id] ELSE id

ASSUME PassManagerAssumption ==
  /\ ModuleLevel \subseteq Kind /\ Analysis \subseteq Kind
  /\ ForFunctions \subseteq Kind \ ModuleLevel
  /\ \A k \in ForFunctions : \A i \in DOMAIN Requires[k] : Creates(Requires[k][i]) \in ForFunctions
  /\ Kind \cap Interface = {} /\ {FPPassManager, None} \cap (ID \cup Nat) = {}
  /\ FPPassManager # None
  /\ Default \in [Interface -> Kind] /\ Implements \in [Kind -> SUBSET Interface]
  /\ Requires \in [Kind -> Seq(ID)] /\ Preserves \in [Kind -> SUBSET ID]
  /\ \A k \in ModuleLevel : \A i \in DOMAIN Requires[k] : Creates(Requires[k][i]) \in ModuleLevel
  /\ Transitive \in [Kind -> SUBSET ID]
  /\ \A k \in Kind : Transitive[k] \subseteq {Requires[k][i] : i \in DOMAIN Requires[k]}
  /\ None \notin [of : 0..NumFunctions, ids : SUBSET ID]
  /\ NumFunctions \in Nat \ {0} /\ MaxAdded \in Nat

VARIABLES
  functionTop,        \* the top level is a FunctionPassManager
  phase,              \* "build", "run" or "done"
  added,              \* how many passes the client has added
  calls,              \* the calls of schedulePass under way, the innermost first
  passes,             \* what each pass is: its kind and its manager
  PassVector,         \* the passes of a manager
  AvailableAnalysis,  \* of a manager: the pass that implements an ID
  LastUser,
  activeStack,
  unreachable,        \* "Unable to schedule pass"
  top, function, index,  \* where the run is: in Root, the function, in its manager
  AnalysisImpls,      \* the pairs of a pass's resolver, the first for every ID
  running,            \* the pass that runs, or None
  results             \* what each pass's memory says: of which function, under which IDs

buildVars == <<added, calls, passes, PassVector, LastUser, activeStack, unreachable>>
runVars == <<top, function, index, AnalysisImpls, running, results>>
vars == <<functionTop, phase, buildVars, AvailableAnalysis, runVars>>

Root == 0
Pass == DOMAIN passes
KindOf(p) == passes[p].kind
IsManager(p) == KindOf(p) = FPPassManager
Managers == {Root} \cup {p \in Pass : IsManager(p)}
Required(k) == {Requires[k][i] : i \in DOMAIN Requires[k]}

Nothing == [id \in {} |-> None]   \* an empty map
Keeping(map, I) == [id \in DOMAIN map \cap I |-> map[id]]

PotentialPassManagerType(k) == IF k \in ModuleLevel THEN 1 ELSE 3
Depth(m) == IF m = Root THEN 1 ELSE 2

\* PMTopLevelManager::findAnalysisPass: Root first, then the managers inside it.
FindInAll(avail, id) ==
  LET known == {m \in DOMAIN avail : id \in DOMAIN avail[m]}
  IN IF known = {} THEN None
     ELSE avail[CHOOSE m \in known : \A n \in known : m <= n][id]

findAnalysisPass(avail, m, id) ==
  IF id \in DOMAIN avail[m] THEN avail[m][id] ELSE FindInAll(avail, id)

------------------------------------------------------------------------------
(* Operations of the managers on AvailableAnalysis, and on LastUser.       *)

\* Mutant: what the managers above m made available stays.
removeFromOwnOnly(avail, m, inherited, k) ==
  [avail EXCEPT ![m] = Keeping(@, Preserves[k])]

removeNotPreservedAnalysis(avail, m, inherited, k) ==
  [n \in DOMAIN avail |-> IF n \in {m} \cup inherited THEN Keeping(avail[n], Preserves[k])
                          ELSE avail[n]]

recordAvailableAnalysis(avail, m, p) ==
  [avail EXCEPT ![m] = [id \in DOMAIN @ \cup Ids(KindOf(p)) |->
                          IF id \in Ids(KindOf(p)) THEN p ELSE @[id]]]

\* Mutant: the pass stays available under the interfaces it implements.
freeItselfOnly(avail, m, F) ==
  [avail EXCEPT ![m] = Keeping(@, DOMAIN @ \ {KindOf(p) : p \in F})]

\* freePass for all of F: a pass is no more available under its own ID, nor under
\* the interfaces it is listed for.
freePasses(avail, m, F) ==
  LET erased == {KindOf(p) : p \in F}
      listed(id) == \E p \in F : id \in Implements[KindOf(p)] /\ avail[m][id] = p
  IN [avail EXCEPT ![m] = Keeping(@, {id \in DOMAIN @ : id \notin erased /\ ~listed(id)})]

setLastUser(last, A, p) ==
  [q \in DOMAIN last \cup A |->
     IF q \in A \/ last[q] \in A \ {p} THEN p ELSE last[q]]

collectLastUses(p) == {q \in DOMAIN LastUser : LastUser[q] = p}

InheritedAnalysis(m) == {n \in {activeStack[i] : i \in DOMAIN activeStack} : n # m}

------------------------------------------------------------------------------
(* Building: schedulePass, one action per iteration of its loop.           *)

\* Mutant: checkAnalysis is not reset before the required passes are looked at.
CheckAlways(k) == [kind |-> k, next |-> 1, again |-> TRUE]
Call(k) == [kind |-> k, next |-> 1, again |-> FALSE]

\* An analysis that is available is not generated again.
IsThere(k) == k \in Analysis /\ FindInAll(AvailableAnalysis, k) # None

\* PassManager::add, FunctionPassManager::add.
AddPass ==
  /\ phase = "build" /\ calls = <<>> /\ ~unreachable
  /\ added < MaxAdded
  /\ \E k \in IF functionTop THEN ForFunctions ELSE Kind :
       calls' = IF IsThere(k) THEN <<>> ELSE <<Call(k)>>
  /\ added' = added + 1
  /\ UNCHANGED <<functionTop, phase, passes, PassVector, AvailableAnalysis, LastUser,
                 activeStack, unreachable, runVars>>

Scheduling == phase = "build" /\ calls # <<>> /\ ~unreachable
Caller == Head(calls)
Wanted == Requires[Caller.kind][Caller.next]

RequiredIsThere ==
  /\ Scheduling
  /\ Caller.next <= Len(Requires[Caller.kind])
  /\ FindInAll(AvailableAnalysis, Wanted) # None
  /\ calls' = [calls EXCEPT ![1].next = @ + 1]
  /\ UNCHANGED <<functionTop, phase, added, passes, PassVector, AvailableAnalysis, LastUser,
                 activeStack, unreachable, runVars>>

\* A required pass that a higher manager runs may displace those already checked.
ScheduleRequired ==
  /\ Scheduling
  /\ Caller.next <= Len(Requires[Caller.kind])
  /\ FindInAll(AvailableAnalysis, Wanted) = None
  /\ LET k == Creates(Wanted)
         called == IF IsThere(k) THEN <<>> ELSE <<Call(k)>>
         above == PotentialPassManagerType(Caller.kind) > PotentialPassManagerType(k)
         back == [kind |-> Caller.kind, next |-> Caller.next + 1, again |-> Caller.again \/ above]
     IN calls' = called \o <<back>> \o Tail(calls)
  /\ UNCHANGED <<functionTop, phase, added, passes, PassVector, AvailableAnalysis, LastUser,
                 activeStack, unreachable, runVars>>

CheckAgain ==
  /\ Scheduling
  /\ Caller.next > Len(Requires[Caller.kind])
  /\ Caller.again
  /\ calls' = [calls EXCEPT ![1] = Call(Caller.kind)]
  /\ UNCHANGED <<functionTop, phase, added, passes, PassVector, AvailableAnalysis, LastUser,
                 activeStack, unreachable, runVars>>

\* Mutant: a pass is not its own last user.
NotItself(p) == {}
UsesItself(p) == {p}

\* PMDataManager::add, with the state the assignment to manager m has left.
Adds(k, m, ps, vector, avail, last, inherited) ==
  LET p == Len(ps) + 1
      found == {findAnalysisPass(avail, m, id) : id \in Required(k)}
      same == {q \in found \ {None} : Depth(ps[q].manager) = Depth(m)}
      higher == {q \in found \ {None} : Depth(ps[q].manager) < Depth(m)}
      mine == setLastUser(last, same \cup UsesItself(p), p)
  IN IF None \in found
       THEN /\ unreachable' = TRUE
            /\ UNCHANGED <<passes, PassVector, AvailableAnalysis, LastUser>>
     ELSE /\ passes' = Append(ps, [kind |-> k, manager |-> m])
          /\ LastUser' = IF higher = {} THEN mine ELSE setLastUser(mine, higher, m)
          /\ AvailableAnalysis' =
               [removeNotPreservedAnalysis(avail, m, inherited, k) EXCEPT
                  ![m] = [id \in DOMAIN @ \cup Ids(k) |-> IF id \in Ids(k) THEN p ELSE @[id]]]
          /\ PassVector' = [vector EXCEPT ![m] = Append(@, p)]
          /\ UNCHANGED unreachable

\* ModulePass::assignPassManager takes the managers above Root off the stack, which
\* forgets what is available in them.
AddModulePass ==
  /\ Scheduling
  /\ Caller.next > Len(Requires[Caller.kind]) /\ ~Caller.again
  /\ Caller.kind \in ModuleLevel
  /\ activeStack' = <<Root>>
  /\ Adds(Caller.kind, Root, passes, PassVector,
          [m \in Managers |-> IF m \in InheritedAnalysis(Root) THEN Nothing
                              ELSE AvailableAnalysis[m]],
          LastUser, {})
  /\ calls' = Tail(calls)
  /\ UNCHANGED <<functionTop, phase, added, runVars>>

AddFunctionPass ==
  /\ Scheduling
  /\ Caller.next > Len(Requires[Caller.kind]) /\ ~Caller.again
  /\ Caller.kind \notin ModuleLevel
  /\ functionTop \/ Len(activeStack) = 2
  /\ LET m == activeStack[Len(activeStack)]
     IN Adds(Caller.kind, m, passes, PassVector, AvailableAnalysis, LastUser,
             InheritedAnalysis(m))
  /\ calls' = Tail(calls)
  /\ UNCHANGED <<functionTop, phase, added, activeStack, runVars>>

\* FunctionPass::assignPassManager makes a function pass manager when there is none
\* on the stack; as a pass it requires nothing and preserves everything.
NewFPPassManager ==
  /\ Scheduling
  /\ Caller.next > Len(Requires[Caller.kind]) /\ ~Caller.again
  /\ Caller.kind \notin ModuleLevel
  /\ ~functionTop /\ Len(activeStack) = 1
  /\ LET m == Len(passes) + 1
     IN /\ passes' = Append(passes, [kind |-> FPPassManager, manager |-> Root])
        /\ PassVector' = [n \in Managers \cup {m} |-> IF n = m THEN <<>>
                            ELSE IF n = Root THEN Append(PassVector[Root], m) ELSE PassVector[n]]
        /\ AvailableAnalysis' = [n \in Managers \cup {m} |-> IF n = m THEN Nothing
                                                            ELSE AvailableAnalysis[n]]
        /\ activeStack' = <<Root, m>>
  /\ UNCHANGED <<functionTop, phase, added, calls, LastUser, unreachable, runVars>>

------------------------------------------------------------------------------
(* Running. *)

Manager == IF function = 0 \/ functionTop THEN Root ELSE PassVector[Root][top]
Index == IF function = 0 THEN top ELSE index
AtPass == phase = "run" /\ running = None /\ Index <= Len(PassVector[Manager])
Current == PassVector[Manager][Index]

Cleared == [m \in Managers |-> Nothing]

\* PassManagerImpl::run and FunctionPassManagerImpl::run: what was available while
\* building is forgotten (initializeAllAnalysisInfo).
BeginRun ==
  /\ phase = "build" /\ calls = <<>> /\ ~unreachable /\ added > 0
  /\ phase' = "run"
  /\ AvailableAnalysis' = Cleared
  /\ AnalysisImpls' = [p \in Pass |-> Nothing]
  /\ results' = [p \in Pass |-> None]
  /\ top' = 1 /\ function' = (IF functionTop THEN 1 ELSE 0) /\ index' = 1 /\ running' = None
  /\ UNCHANGED <<functionTop, buildVars>>

\* MPPassManager::runOnModule comes to a function pass manager.
EnterManager ==
  /\ AtPass
  /\ IsManager(Current)
  /\ function' = 1 /\ index' = 1
  /\ UNCHANGED <<functionTop, phase, buildVars, AvailableAnalysis, top, AnalysisImpls, running,
                 results>>

\* What a pass uses is the first pair of its resolver.
initializeAnalysisImpl ==
  /\ AtPass
  /\ ~IsManager(Current)
  /\ LET Found(id) == findAnalysisPass(AvailableAnalysis, Manager, id)
         new == {id \in Required(KindOf(Current)) : Found(id) # None}
     IN AnalysisImpls' = [AnalysisImpls EXCEPT ![Current] =
          [id \in DOMAIN @ \cup new |-> IF id \in DOMAIN @ THEN @[id] ELSE Found(id)]]
  /\ running' = Current
  /\ UNCHANGED <<functionTop, phase, buildVars, AvailableAnalysis, top, function, index, results>>

\* The pass runs: what it does not preserve is no more valid, and goes; what it was
\* the last to use is freed.
RunPass ==
  /\ phase = "run" /\ running # None
  /\ LET p == running
         k == KindOf(p)
         inherited == IF function = 0 THEN {} ELSE InheritedAnalysis(Manager)
         dead == collectLastUses(p)
     IN /\ AvailableAnalysis' =
             freePasses(recordAvailableAnalysis(
                          removeNotPreservedAnalysis(AvailableAnalysis, Manager, inherited, k),
                          Manager, p), Manager, dead)
        /\ results' = [q \in Pass |->
             IF q \in dead THEN None
             ELSE IF q = p THEN [of |-> function, ids |-> Ids(k)]
             ELSE IF results[q] = None THEN None
             ELSE [results[q] EXCEPT !.ids = @ \cap Preserves[k]]]
  /\ running' = None
  /\ IF function = 0 THEN top' = top + 1 /\ UNCHANGED index
                     ELSE index' = index + 1 /\ UNCHANGED top
  /\ UNCHANGED <<functionTop, phase, buildVars, function, AnalysisImpls>>

PastLast == phase = "run" /\ running = None /\ Index > Len(PassVector[Manager])

\* FPPassManager::runOnModule goes on to the next function.
NextFunction ==
  /\ PastLast /\ ~functionTop
  /\ function \in 1..(NumFunctions - 1)
  /\ function' = function + 1 /\ index' = 1
  /\ UNCHANGED <<functionTop, phase, buildVars, AvailableAnalysis, top, AnalysisImpls, running,
                 results>>

\* The manager has run, as a pass of Root that preserves everything.
LeaveManager ==
  /\ PastLast /\ ~functionTop
  /\ function = NumFunctions
  /\ LET dead == collectLastUses(Manager)
     IN /\ AvailableAnalysis' = freePasses(AvailableAnalysis, Root, dead)
        /\ results' = [q \in Pass |-> IF q \in dead THEN None ELSE results[q]]
  /\ function' = 0 /\ top' = top + 1
  /\ UNCHANGED <<functionTop, phase, buildVars, index, AnalysisImpls, running>>

\* FunctionPassManagerImpl::run ends with cleanup; its client runs it on the next
\* function, which begins with initializeAllAnalysisInfo.
RunNextFunction ==
  /\ PastLast /\ functionTop
  /\ function < NumFunctions
  /\ AnalysisImpls' = [p \in Pass |-> Nothing]
  /\ AvailableAnalysis' = Cleared
  /\ function' = function + 1 /\ index' = 1
  /\ UNCHANGED <<functionTop, phase, buildVars, top, running, results>>

EndRun ==
  /\ PastLast
  /\ function = IF functionTop THEN NumFunctions ELSE 0
  /\ phase' = "done"
  /\ UNCHANGED <<functionTop, buildVars, AvailableAnalysis, runVars>>

Init ==
  /\ functionTop \in BOOLEAN
  /\ phase = "build" /\ added = 0 /\ calls = <<>> /\ passes = <<>>
  /\ PassVector = [m \in {Root} |-> <<>>]
  /\ AvailableAnalysis = [m \in {Root} |-> Nothing]
  /\ LastUser = [p \in {} |-> Root]
  /\ activeStack = <<Root>>
  /\ unreachable = FALSE
  /\ top = 0 /\ function = 0 /\ index = 0
  /\ AnalysisImpls = Nothing /\ running = None /\ results = Nothing

Schedule ==
  \/ RequiredIsThere \/ ScheduleRequired \/ CheckAgain
  \/ AddModulePass \/ NewFPPassManager \/ AddFunctionPass

RunStep ==
  \/ EnterManager \/ initializeAnalysisImpl \/ RunPass
  \/ NextFunction \/ LeaveManager \/ RunNextFunction \/ EndRun

Next == AddPass \/ Schedule \/ BeginRun \/ RunStep

\* The client adds passes and starts the run when it likes; a call of add returns,
\* and a run goes on to its end.
Spec == Init /\ [][Next]_vars /\ WF_vars(Schedule) /\ WF_vars(RunStep)

------------------------------------------------------------------------------
(* What a schedule provides. The passes of a manager run in the order of   *)
(* their numbers, so what is listed before pass p, and what lies between   *)
(* two passes, is said of numbers.                                         *)

Passes == {p \in Pass : ~IsManager(p)}
ManagerOf(p) == passes[p].manager
Requirable == UNION {Required(k) : k \in Kind}

\* Running l leaves what is listed under id as it is.
Keeps(l, id) ==
  IF IsManager(l) THEN \A x \in Pass : ManagerOf(x) = l => id \in Preserves[KindOf(x)]
                  ELSE id \in Preserves[KindOf(l)]

Between(m, e, p) == {l \in Pass : ManagerOf(l) = m /\ e < l /\ l < p}

\* Before p runs, manager m lists e under id unless e is freed.
Lists(m, p, id, e) ==
  /\ e \in Passes /\ ManagerOf(e) = m /\ e < p /\ id \in Ids(KindOf(e))
  /\ \A l \in Between(m, e, p) : Keeps(l, id) /\ (~IsManager(l) => id \notin Ids(KindOf(l)))

\* What p has when it asks for id: a pass of its own manager, or else of Root.
Serves(p, id, e) ==
  \/ Lists(ManagerOf(p), p, id, e)
  \/ /\ ManagerOf(p) # Root /\ \A x \in Pass : ~Lists(ManagerOf(p), p, id, x)
     /\ Lists(Root, ManagerOf(p), id, e)

\* freePass takes the ID of a pass off the list whoever is listed: a pass made while
\* an earlier one of its kind is still in use must not outlive that one's freeing.
RemadeOutliveNone ==
  \A f, e \in Passes :
    ManagerOf(f) = ManagerOf(e) /\ KindOf(f) = KindOf(e) /\ KindOf(e) \in Requirable /\ f < e =>
      LastUser[f] < e \/ LastUser[e] <= LastUser[f]

\* A resolver keeps its pairs for all functions of a run: what serves a function pass
\* from Root must not be displaced by a later one, which then runs before it.
ModuleResultsStay ==
  \A p \in Passes : \A id \in Required(KindOf(p)) : \A e \in Pass :
    ManagerOf(p) # Root /\ ManagerOf(e) = Root /\ Serves(p, id, e) => Keeps(ManagerOf(p), id)

\* Nothing in the code sees to these two.
WellKept == RemadeOutliveNone /\ ModuleResultsStay

------------------------------------------------------------------------------
MapOK(map) == DOMAIN map \subseteq ID /\ \A id \in DOMAIN map : map[id] \in Pass

\* The maps are between what there is: managers, passes and their IDs.
TypeOK ==
  /\ phase \in {"build", "run", "done"} /\ running \in Pass \cup {None}
  /\ \A p \in Pass : KindOf(p) \in Kind \cup {FPPassManager} /\ passes[p].manager \in Managers
  /\ DOMAIN AvailableAnalysis = Managers /\ DOMAIN PassVector = Managers
  /\ \A m \in Managers : MapOK(AvailableAnalysis[m])
  /\ \A i \in DOMAIN activeStack : activeStack[i] \in Managers
  /\ DOMAIN LastUser \subseteq Pass /\ \A p \in DOMAIN LastUser : LastUser[p] \in Pass

\* Pass q has, under id, the result of a run on the function at hand (or, a module
\* pass, on the module) that nothing has invalidated since and that is not freed.
IsReady(q, id) ==
  /\ results[q] # None
  /\ results[q].of = IF KindOf(q) \in ModuleLevel THEN 0 ELSE function
  /\ id \in results[q].ids

\* "All Required analyses should be available to the pass as it runs!": getAnalysis
\* finds them, and they say what is true of this function.
RequiredAreReady ==
  running # None =>
    \A id \in Required(KindOf(running)) :
      id \in DOMAIN AnalysisImpls[running] /\ IsReady(AnalysisImpls[running][id], id)

\* What is required is ready but for two weaknesses of the code: while the schedule is
\* free of them, whatever the passes require, preserve and implement.
RequiredAreProvided == RequiredAreReady \/ ~WellKept

\* "the transitively required pass should be alive as long as the requiring pass is":
\* what a pass uses has at hand what it uses itself.
TransitivelyRequiredAreReady ==
  running # None =>
    \A id \in DOMAIN AnalysisImpls[running] :
      LET q == AnalysisImpls[running][id]
      IN \A t \in Transitive[KindOf(q)] :
           t \in DOMAIN AnalysisImpls[q] /\ IsReady(AnalysisImpls[q][t], t)

\* "Stale analysis info should not be available at this point": what the manager in
\* charge lists as available is ready.
NothingStaleIsAvailable ==
  phase = "run" =>
    \A id \in DOMAIN AvailableAnalysis[Manager] : IsReady(AvailableAnalysis[Manager][id], id)

\* When a run is over every pass has been freed, and on the way no function's
\* results are kept while the next function is worked on.
NothingIsKept ==
  /\ phase = "done" => \A p \in Pass : results[p] = None
  /\ phase = "run" => \A p \in Pass :
       results[p] # None => results[p].of \in {0, function}

\* schedulePass returns, however often it has to look again at what it has checked,
\* and its manager can then provide what the pass requires (no "Unable to schedule
\* pass").
EverythingIsScheduled == calls # <<>> ~> calls = <<>> /\ ~unreachable
==============================================================================
