-------------------------- MODULE PassManagerProofs --------------------------
(***************************************************************************)
(* For every set of passes, whatever they require and preserve: what the   *)
(* managers list is not stale, nothing is kept for the next function, and  *)
(* what a pass requires is there when it runs, if the schedule is free of  *)
(* the two weaknesses that WellKept excludes.                              *)
(*                                                                         *)
(* While passes are added the first invariant, IInv, is about the          *)
(* schedule: who manages whom, and that the last user of a pass runs in    *)
(* the same manager and not before it. The schedule does not change during *)
(* the run, and a result that is there is of the function at hand and its  *)
(* last user yet to come.                                                  *)
(*                                                                         *)
(* The second, JInv, says what the schedule provides: every pass is served *)
(* by one that runs before it and is neither displaced until then nor used *)
(* for the last time. While building, the managers list what the schedule  *)
(* provides, so adding a pass at the end extends it; in the run of a       *)
(* schedule that is well kept what they list follows the schedule.         *)
(***************************************************************************)
EXTENDS PassManager, TLAPS

\* A call of schedulePass, for a pass that the top level may be asked for.
CallType ==
  [kind : IF functionTop THEN ForFunctions ELSE Kind, next : Nat \ {0}, again : BOOLEAN]

\* Who manages whom: a FunctionPassManager has no managers inside it, function passes
\* are not in Root if that one runs modules.
Managed ==
  /\ functionTop \in BOOLEAN
  /\ passes \in Seq([kind : Kind \cup {FPPassManager}, manager : Nat])
  /\ \A p \in Pass :
       /\ ManagerOf(p) \in Managers
       /\ IsManager(p) => ManagerOf(p) = Root /\ ~functionTop
       /\ ~IsManager(p) => (KindOf(p) \in ModuleLevel <=> ManagerOf(p) = Root /\ ~functionTop)

\* The passes of a manager are in its vector in the order of their creation.
Vectors ==
  /\ PassVector \in [Managers -> Seq(Nat)]
  /\ \A m \in Managers :
       /\ \A i \in DOMAIN PassVector[m] :
            PassVector[m][i] \in Pass /\ ManagerOf(PassVector[m][i]) = m
       /\ \A i, j \in DOMAIN PassVector[m] : i < j => PassVector[m][i] < PassVector[m][j]
  /\ \A p \in Pass : \E i \in DOMAIN PassVector[ManagerOf(p)] : PassVector[ManagerOf(p)][i] = p

\* The last user of a pass runs in the same manager, and not before it.
LastUsers ==
  /\ LastUser \in [Passes -> Pass]
  /\ \A p \in Passes : ManagerOf(LastUser[p]) = ManagerOf(p) /\ p <= LastUser[p]

\* What a manager lists are passes of its own.
Listed ==
  /\ AvailableAnalysis = [m \in Managers |-> AvailableAnalysis[m]]
  /\ \A m \in Managers : \A id \in DOMAIN AvailableAnalysis[m] :
       AvailableAnalysis[m][id] \in Passes /\ ManagerOf(AvailableAnalysis[m][id]) = m

\* The stack; its top is the last pass of Root, and a manager that left it lists nothing.
Stack ==
  /\ calls \in Seq(CallType)
  /\ activeStack = <<Root>> \/ \E m \in Managers \ {Root} : activeStack = <<Root, m>>
  /\ phase = "build" /\ ~unreachable =>
       /\ \A m \in Managers : m \notin {activeStack[i] : i \in DOMAIN activeStack} =>
            DOMAIN AvailableAnalysis[m] = {}
       /\ \A i \in DOMAIN activeStack : activeStack[i] # Root =>
            \A p \in Pass : ManagerOf(p) = Root => p <= activeStack[i]

\* Where the run is in manager m, and of what its passes' results are.
Position(m) == IF m = Root /\ ~functionTop THEN top ELSE index
Of(m) == IF m = Root /\ ~functionTop THEN 0 ELSE function

Place ==
  /\ top \in Nat \ {0} /\ index \in Nat \ {0} /\ function \in 0..NumFunctions
  /\ functionTop => function # 0
  /\ ~functionTop /\ function # 0 =>
       top \in DOMAIN PassVector[Root] /\ IsManager(PassVector[Root][top])
  /\ running # None =>
       Index \in DOMAIN PassVector[Manager] /\ running = Current /\ ~IsManager(running)

\* A result that is there is of what is being worked on, and its last user, in the
\* same manager, has not run.
Results ==
  /\ results = [p \in Pass |-> results[p]]
  /\ \A p \in Pass : results[p] # None =>
       /\ results[p] \in [of : {Of(ManagerOf(p))}, ids : SUBSET ID]
       /\ p \in Passes /\ ManagerOf(p) \in {Root, Manager}
       /\ \E i \in DOMAIN PassVector[ManagerOf(p)] :
            i >= Position(ManagerOf(p)) /\ PassVector[ManagerOf(p)][i] = LastUser[p]

\* What a manager lists has a result, under the ID it is listed for.
Available ==
  \A m \in Managers : \A id \in DOMAIN AvailableAnalysis[m] :
    LET q == AvailableAnalysis[m][id]
    IN id \in Ids(KindOf(q)) /\ results[q] # None /\ id \in results[q].ids

Schedules == Managed /\ Vectors /\ LastUsers

IInv ==
  /\ phase \in {"build", "run", "done"}
  /\ Schedules /\ Listed /\ Stack
  /\ phase = "run" => Place /\ Results /\ Available
  /\ phase = "done" => results = [p \in Pass |-> None]

------------------------------------------------------------------------------
(* The operators.                                                          *)

LEMMA PassNumbers ==
  ASSUME Managed
  PROVE  /\ Pass = 1 .. Len(passes) /\ Len(passes) \in Nat
         /\ \A p \in Pass : KindOf(p) \in Kind \cup {FPPassManager}
         /\ Managers \subseteq Nat /\ Root \in Managers /\ Root \notin Pass
         /\ \A m \in Managers : m # Root => m \in Pass /\ ManagerOf(m) = Root /\ ~functionTop
         /\ None \notin Pass
<1> DEFINE S == [kind : Kind \cup {FPPassManager}, manager : Nat]
<1>0. passes \in Seq(S)
  BY DEF Managed
<1>1. Pass = 1 .. Len(passes) /\ Len(passes) \in Nat
  <2> HIDE DEF S
  <2> QED
    BY <1>0 DEF Pass
<1>2. \A p \in Pass : KindOf(p) \in Kind \cup {FPPassManager}
  <2>1. \A p \in Pass : passes[p] \in S
    <3> HIDE DEF S
    <3> QED
      BY <1>0, <1>1
  <2> QED
    BY <2>1 DEF KindOf
<1>3. Managers \subseteq Nat /\ Root \in Managers /\ Root \notin Pass
  BY <1>1 DEF Managers, Root
<1>4. \A m \in Managers : m # Root => m \in Pass /\ ManagerOf(m) = Root /\ ~functionTop
  BY DEF Managed, Managers
<1>5. None \notin Pass
  BY <1>1, PassManagerAssumption
<1> QED
  BY <1>1, <1>2, <1>3, <1>4, <1>5

\* The minimum is among the managers that list something: Root, or m.
LEMMA FindsInRootOrHere ==
  ASSUME NEW D \in SUBSET Nat, NEW avail, DOMAIN avail = D, NEW m \in D, NEW id, Root \in D,
         \A n \in D \ {Root, m} : DOMAIN avail[n] = {},
         findAnalysisPass(avail, m, id) # None
  PROVE  \E n \in {Root, m} :
           id \in DOMAIN avail[n] /\ findAnalysisPass(avail, m, id) = avail[n][id]
<1>1. CASE id \in DOMAIN avail[m]
  BY <1>1 DEF findAnalysisPass
<1>2. CASE id \notin DOMAIN avail[m]
  <2> DEFINE known == {n \in DOMAIN avail : id \in DOMAIN avail[n]}
  <2>1. findAnalysisPass(avail, m, id) = FindInAll(avail, id)
    BY <1>2 DEF findAnalysisPass
  <2>2. known # {}
    BY <2>1 DEF FindInAll
  <2>3. known = {Root}
    BY <1>2, <2>2
  <2>4. (CHOOSE x \in known : \A n \in known : x <= n) = Root
    BY <2>3 DEF Root
  <2> QED
    BY <2>1, <2>2, <2>3, <2>4 DEF FindInAll
<1> QED
  BY <1>1, <1>2

\* PMDataManager::add keeps the schedule in order, whatever the pass requires.
LEMMA AddsKeepsSchedule ==
  ASSUME Schedules, functionTop' = functionTop,
         NEW k \in Kind, NEW m \in Managers, NEW avail, NEW inherited,
         avail = [n \in Managers |-> avail[n]],
         \A n \in Managers : \A id \in DOMAIN avail[n] :
           avail[n][id] \in Passes /\ ManagerOf(avail[n][id]) = n,
         \A n \in Managers \ {Root, m} : DOMAIN avail[n] = {},
         k \in ModuleLevel <=> m = Root /\ ~functionTop,
         m # Root => \A p \in Pass : ManagerOf(p) = Root => p <= m,
         Adds(k, m, passes, PassVector, avail, LastUser, inherited),
         ~unreachable'
  PROVE  /\ Schedules' /\ Listed' /\ Managers' = Managers
         /\ Pass \subseteq Pass'
         /\ \A p \in Pass' : ManagerOf(p)' = IF p \in Pass THEN ManagerOf(p) ELSE m
         /\ \A n \in Managers \ {m} : DOMAIN avail[n] = {} => DOMAIN AvailableAnalysis'[n] = {}
<1>p. PICK P : P = Len(passes) + 1
  OBVIOUS
<1> DEFINE found == {findAnalysisPass(avail, m, id) : id \in Required(k)}
           same == {q \in found \ {None} : Depth(passes[q].manager) = Depth(m)}
           higher == {q \in found \ {None} : Depth(passes[q].manager) < Depth(m)}
           mine == setLastUser(LastUser, same \cup UsesItself(P), P)
           S == [kind : Kind \cup {FPPassManager}, manager : Nat]
           new == [kind |-> k, manager |-> m]
<1>1. /\ passes' = Append(passes, new)
      /\ LastUser' = IF higher = {} THEN mine ELSE setLastUser(mine, higher, m)
      /\ AvailableAnalysis' =
           [removeNotPreservedAnalysis(avail, m, inherited, k) EXCEPT
              ![m] = [id \in DOMAIN @ \cup Ids(k) |-> IF id \in Ids(k) THEN P ELSE @[id]]]
      /\ PassVector' = [PassVector EXCEPT ![m] = Append(@, P)]
  BY <1>p DEF Adds
<1>2. /\ Pass = 1 .. Len(passes) /\ Len(passes) \in Nat
      /\ Managers \subseteq Nat /\ Root \in Managers /\ Root \notin Pass /\ m \in Nat /\ P \in Nat
      /\ \A n \in Managers : n # Root => n \in Pass /\ ManagerOf(n) = Root /\ ~functionTop
  BY <1>p, PassNumbers DEF Schedules
<1>3. passes \in Seq(S) /\ new \in S
  BY <1>2 DEF Schedules, Managed
<1>4. /\ passes' \in Seq(S) /\ Pass' = 1 .. P /\ P \notin Pass
      /\ passes'[P] = new /\ \A p \in Pass : passes'[p] = passes[p]
  <2> HIDE DEF S, new
  <2> QED
    BY <1>p, <1>1, <1>2, <1>3 DEF Pass
<1>5. /\ Pass' = Pass \cup {P}
      /\ \A p \in Pass : KindOf(p)' = KindOf(p) /\ ManagerOf(p)' = ManagerOf(p)
      /\ KindOf(P)' = k /\ ManagerOf(P)' = m
  BY <1>p, <1>2, <1>4 DEF KindOf, ManagerOf
<1>e. /\ P \in Pass' /\ passes'[P].manager = m
      /\ \A p \in Pass : p \in Pass' /\ passes'[p].manager = passes[p].manager
  BY <1>5 DEF ManagerOf
<1>6. /\ k # FPPassManager
      /\ \A p \in Pass : IsManager(p)' <=> IsManager(p)
      /\ ~IsManager(P)' /\ Managers' = Managers /\ Passes' = Passes \cup {P}
  <2>1. k # FPPassManager
    BY PassManagerAssumption DEF ID
  <2>2. (\A p \in Pass : IsManager(p)' <=> IsManager(p)) /\ ~IsManager(P)'
    BY <1>5, <2>1 DEF IsManager
  <2>3. Managers' = Managers /\ Passes' = Passes \cup {P}
    BY <1>5, <2>2 DEF Managers, Passes, Root
  <2> QED
    BY <2>1, <2>2, <2>3
<1>7. Managed'
  BY <1>4, <1>5, <1>6 DEF Schedules, Managed
<1>8. Vectors'
  <2>1. PassVector' \in [Managers' -> Seq(Nat)]
    BY <1>1, <1>2, <1>6 DEF Schedules, Vectors
  <2>2. \A n \in Managers \ {m} : PassVector'[n] = PassVector[n]
    BY <1>1 DEF Schedules, Vectors
  <2>3. PassVector[m] \in Seq(Nat) /\ PassVector'[m] = Append(PassVector[m], P)
    BY <1>1 DEF Schedules, Vectors
  <2>4. PICK L \in Nat :
          /\ DOMAIN PassVector[m] = 1 .. L /\ DOMAIN PassVector'[m] = 1 .. (L + 1)
          /\ \A i \in DOMAIN PassVector[m] : PassVector'[m][i] = PassVector[m][i]
          /\ PassVector'[m][L + 1] = P
    <3>1. /\ DOMAIN PassVector[m] = 1 .. Len(PassVector[m]) /\ Len(PassVector[m]) \in Nat
          /\ DOMAIN PassVector'[m] = 1 .. (Len(PassVector[m]) + 1)
          /\ \A i \in DOMAIN PassVector[m] : PassVector'[m][i] = PassVector[m][i]
          /\ PassVector'[m][Len(PassVector[m]) + 1] = P
      BY <2>3, <1>2
    <3> QED
      BY <3>1
  <2>5. ASSUME NEW n \in Managers
        PROVE  /\ \A i \in DOMAIN PassVector'[n] :
                    PassVector'[n][i] \in Pass' /\ passes'[PassVector'[n][i]].manager = n
               /\ \A i, j \in DOMAIN PassVector'[n] :
                    i < j => PassVector'[n][i] < PassVector'[n][j]
    <3>0. /\ \A i \in DOMAIN PassVector[n] :
               PassVector[n][i] \in Pass /\ passes[PassVector[n][i]].manager = n
          /\ \A i, j \in DOMAIN PassVector[n] : i < j => PassVector[n][i] < PassVector[n][j]
      BY DEF Schedules, Vectors, ManagerOf
    <3>1. CASE n # m
      BY <3>0, <3>1, <2>2, <1>e
    <3>2. CASE n = m
      <4>1. \A i \in DOMAIN PassVector[m] :
              PassVector[m][i] \in Pass /\ ManagerOf(PassVector[m][i]) = m /\ PassVector[m][i] < P
        BY <1>p, <1>2, <3>0, <3>2 DEF ManagerOf
      <4>2. \A i \in DOMAIN PassVector'[m] :
              PassVector'[m][i] \in Pass' /\ passes'[PassVector'[m][i]].manager = m
        <5> SUFFICES ASSUME NEW i \in 1 .. (L + 1)
                     PROVE  PassVector'[m][i] \in Pass' /\ passes'[PassVector'[m][i]].manager = m
          BY <2>4
        <5>1. CASE i \in 1 .. L
          BY <5>1, <4>1, <2>4, <1>e DEF ManagerOf
        <5>2. CASE i = L + 1
          BY <5>2, <2>4, <1>e
        <5> QED
          BY <5>1, <5>2
      <4>3. \A i, j \in DOMAIN PassVector'[m] :
              i < j => PassVector'[m][i] < PassVector'[m][j]
        <5> SUFFICES ASSUME NEW i \in 1 .. (L + 1), NEW j \in 1 .. (L + 1), i < j
                     PROVE  PassVector'[m][i] < PassVector'[m][j]
          BY <2>4
        <5>1. i \in 1 .. L /\ PassVector'[m][i] = PassVector[m][i]
          BY <2>4
        <5>2. CASE j \in 1 .. L
          <6>1. PassVector'[m][j] = PassVector[m][j] /\ i \in DOMAIN PassVector[n] /\ j \in DOMAIN PassVector[n]
            BY <5>1, <5>2, <2>4, <3>2
          <6> QED
            BY <5>1, <6>1, <3>0, <3>2
        <5>3. CASE j = L + 1
          BY <5>1, <5>3, <2>4, <4>1
        <5> QED
          BY <5>2, <5>3
      <4> QED
        BY <3>2, <4>2, <4>3
    <3> QED
      BY <3>1, <3>2
  <2>6. \A p \in Pass' :
          \E i \in DOMAIN PassVector'[ManagerOf(p)'] : PassVector'[ManagerOf(p)'][i] = p
    <3>1. \A p \in Pass : ManagerOf(p) \in Managers
      BY DEF Schedules, Managed
    <3>2. ASSUME NEW p \in Pass
          PROVE  \E i \in DOMAIN PassVector'[ManagerOf(p)] : PassVector'[ManagerOf(p)][i] = p
      <4>1. PICK i \in DOMAIN PassVector[ManagerOf(p)] : PassVector[ManagerOf(p)][i] = p
        BY DEF Schedules, Vectors
      <4>2. CASE ManagerOf(p) = m
        BY <4>1, <4>2, <2>4
      <4>3. CASE ManagerOf(p) # m
        BY <4>1, <4>3, <2>2, <3>1
      <4> QED
        BY <4>2, <4>3
    <3>3. \E i \in DOMAIN PassVector'[m] : PassVector'[m][i] = P
      BY <2>4
    <3> QED
      BY <1>5, <3>2, <3>3
  <2> QED
    BY <2>1, <2>5, <2>6, <1>6 DEF Vectors, ManagerOf
<1>9. \A q \in found \ {None} : q \in Passes /\ ManagerOf(q) \in {Root, m}
  <2>1. SUFFICES ASSUME NEW id, findAnalysisPass(avail, m, id) # None
                 PROVE  /\ findAnalysisPass(avail, m, id) \in Passes
                        /\ ManagerOf(findAnalysisPass(avail, m, id)) \in {Root, m}
    OBVIOUS
  <2>2. DOMAIN avail = Managers
    OBVIOUS
  <2>3. PICK n \in {Root, m} :
          id \in DOMAIN avail[n] /\ findAnalysisPass(avail, m, id) = avail[n][id]
    BY <2>1, <2>2, <1>2, FindsInRootOrHere
  <2> QED
    BY <2>3, <1>2
<1>10. /\ \A q \in same : q \in Passes /\ ManagerOf(q) = m
       /\ \A q \in higher : q \in Passes /\ ManagerOf(q) = Root /\ m # Root
  BY <1>9 DEF Depth, ManagerOf
<1>11. /\ mine \in [Passes \cup {P} -> Pass \cup {P}]
       /\ mine[P] = P
       /\ \A q \in Passes : (mine[q] = P /\ ManagerOf(q) = m) \/ mine[q] = LastUser[q]
  <2>1. /\ LastUser \in [Passes -> Pass] /\ Passes \subseteq Pass
        /\ \A q \in Passes : ManagerOf(LastUser[q]) = ManagerOf(q) /\ q <= LastUser[q]
    BY DEF Schedules, LastUsers, Passes
  <2>2. P \notin Passes /\ UsesItself(P) = {P} /\ P \notin same
    BY <1>p, <1>2, <1>10 DEF Passes, UsesItself
  <2>3. mine = [q \in Passes \cup {P} |->
                  IF q \in same \cup {P} \/ LastUser[q] \in (same \cup {P}) \ {P} THEN P ELSE LastUser[q]]
    <3>1. DOMAIN LastUser \cup (same \cup UsesItself(P)) = Passes \cup {P}
      BY <2>1, <2>2, <1>10
    <3>2. mine = setLastUser(LastUser, same \cup {P}, P)
      BY <2>2
    <3>3. DOMAIN LastUser \cup (same \cup {P}) = Passes \cup {P}
      BY <2>2, <3>1
    <3> HIDE DEF same, mine
    <3> QED
      BY <3>2, <3>3 DEF setLastUser
  <2>4. \A q \in Passes : q \in same \/ LastUser[q] \in same => ManagerOf(q) = m
    BY <2>1, <1>10
  <2> QED
    BY <2>1, <2>2, <2>3, <2>4
<1>12. LastUsers'
  <2> HIDE DEF mine, same, higher, found
  <2>1. /\ LastUser \in [Passes -> Pass] /\ Passes \subseteq Pass
        /\ \A q \in Passes : ManagerOf(LastUser[q]) = ManagerOf(q) /\ q <= LastUser[q]
    BY DEF Schedules, LastUsers, Passes
  <2>2. ASSUME NEW last, last = mine \/ (last = setLastUser(mine, higher, m) /\ higher # {})
        PROVE  /\ last \in [Passes \cup {P} -> Pass \cup {P}]
               /\ \A q \in Passes \cup {P} :
                    passes'[last[q]].manager = passes'[q].manager /\ q <= last[q]
    <3>1. \A q \in Passes \cup {P} :
            passes'[mine[q]].manager = passes'[q].manager /\ q <= mine[q]
      <4>1. ASSUME NEW q \in Passes
            PROVE  passes'[mine[q]].manager = passes'[q].manager /\ q <= mine[q]
        BY <1>11, <1>e, <1>p, <1>2, <2>1 DEF ManagerOf
      <4> QED
        BY <4>1, <1>11, <1>2
    <3>2. CASE last = mine
      BY <3>1, <3>2, <1>11
    <3>3. CASE last = setLastUser(mine, higher, m) /\ higher # {}
      <4>1. m # Root /\ m \in Pass /\ ManagerOf(m) = Root
        BY <3>3, <1>10, <1>2
      <4>2. higher \subseteq Passes
        BY <1>10
      <4>3. last = [q \in Passes \cup {P} |->
                      IF q \in higher \/ mine[q] \in higher \ {m} THEN m ELSE mine[q]]
        BY <3>3, <4>2, <1>11 DEF setLastUser
      <4>4. ASSUME NEW q \in Passes \cup {P}, q \in higher \/ mine[q] \in higher
            PROVE  passes'[q].manager = Root /\ q <= m
        <5>1. q \in Pass
          BY <4>4, <1>10, <1>11, <4>1, <1>2 DEF Passes
        <5>2. passes'[q].manager = Root
          BY <4>4, <5>1, <3>1, <1>10, <1>e, <2>1 DEF ManagerOf
        <5> QED
          BY <5>1, <5>2, <4>1, <1>e DEF ManagerOf
      <4>5. passes'[m].manager = Root
        BY <4>1, <1>e DEF ManagerOf
      <4> QED
        BY <4>3, <4>4, <4>5, <4>1, <3>1, <1>11
    <3> QED
      BY <2>2, <3>2, <3>3
  <2>3. LastUser' = mine \/ (LastUser' = setLastUser(mine, higher, m) /\ higher # {})
    BY <1>1
  <2> QED
    BY <2>2, <2>3, <1>5, <1>6 DEF LastUsers, ManagerOf
<1>13. /\ AvailableAnalysis' = [n \in Managers |-> AvailableAnalysis'[n]]
       /\ \A n \in Managers \ {m} : \A id \in DOMAIN AvailableAnalysis'[n] :
            id \in DOMAIN avail[n] /\ AvailableAnalysis'[n][id] = avail[n][id]
       /\ \A id \in DOMAIN AvailableAnalysis'[m] :
            \/ AvailableAnalysis'[m][id] = P
            \/ id \in DOMAIN avail[m] /\ AvailableAnalysis'[m][id] = avail[m][id]
  <2> DEFINE left == removeNotPreservedAnalysis(avail, m, inherited, k)
  <2>1. /\ left = [n \in Managers |-> left[n]]
        /\ \A n \in Managers : \A id \in DOMAIN left[n] :
             id \in DOMAIN avail[n] /\ left[n][id] = avail[n][id]
    BY DEF removeNotPreservedAnalysis, Keeping
  <2>2. /\ AvailableAnalysis' = [n \in Managers |-> AvailableAnalysis'[n]]
        /\ \A n \in Managers \ {m} : AvailableAnalysis'[n] = left[n]
        /\ AvailableAnalysis'[m] = [id \in DOMAIN left[m] \cup Ids(k) |->
                                      IF id \in Ids(k) THEN P ELSE left[m][id]]
    <3> HIDE DEF left
    <3>1. AvailableAnalysis' =
             [left EXCEPT ![m] = [id \in DOMAIN @ \cup Ids(k) |-> IF id \in Ids(k) THEN P ELSE @[id]]]
      BY <1>1 DEF left
    <3> QED
      BY <2>1, <3>1
  <2> HIDE DEF left
  <2> QED
    BY <2>1, <2>2
<1>14. Listed'
  <2>1. ASSUME NEW n \in Managers, NEW id \in DOMAIN AvailableAnalysis'[n]
        PROVE  /\ AvailableAnalysis'[n][id] \in Passes'
               /\ passes'[AvailableAnalysis'[n][id]].manager = n
    BY <2>1, <1>13, <1>6, <1>e DEF ManagerOf, Passes
  <2> QED
    BY <2>1, <1>13, <1>6 DEF Listed, ManagerOf
<1> QED
  BY <1>5, <1>6, <1>7, <1>8, <1>12, <1>13, <1>14 DEF Schedules

------------------------------------------------------------------------------
(* Building.                                                               *)

LEMMA SameSchedule ==
  ASSUME Schedules, UNCHANGED <<functionTop, passes, PassVector, LastUser>>
  PROVE  Schedules' /\ Pass' = Pass /\ Passes' = Passes /\ Managers' = Managers
<1> USE DEF Schedules, Managed, Vectors, LastUsers, Pass, Passes, Managers, ManagerOf, IsManager,
            KindOf, Root
<1> QED
  OBVIOUS

\* A step that only changes the calls of schedulePass.
LEMMA OnlyCalls ==
  ASSUME IInv, phase = "build", calls' \in Seq(CallType), phase' = phase,
         UNCHANGED <<functionTop, passes, PassVector, AvailableAnalysis, LastUser, activeStack,
                     unreachable>>
  PROVE  IInv'
<1>1. Schedules' /\ Pass' = Pass /\ Passes' = Passes /\ Managers' = Managers
  BY SameSchedule DEF IInv
<1>2. \A p \in Pass : ManagerOf(p)' = ManagerOf(p)
  BY DEF ManagerOf
<1>3. Listed'
  <2>1. \A m \in Managers : \A id \in DOMAIN AvailableAnalysis[m] :
          AvailableAnalysis[m][id] \in Pass
    BY DEF IInv, Listed, Passes
  <2> QED
    BY <1>1, <2>1 DEF IInv, Listed, ManagerOf
<1>4. Stack'
  BY <1>1, <1>2 DEF IInv, Stack, CallType, Root
<1> QED
  BY <1>1, <1>3, <1>4 DEF IInv

LEMMA CallOK ==
  ASSUME NEW k \in IF functionTop THEN ForFunctions ELSE Kind
  PROVE  Call(k) \in CallType
  BY DEF Call, CallType

LEMMA AddPassKeeps ==
  ASSUME IInv, AddPass
  PROVE  IInv'
<1>1. PICK k \in IF functionTop THEN ForFunctions ELSE Kind :
        calls' = IF IsThere(k) THEN <<>> ELSE <<Call(k)>>
  BY DEF AddPass
<1>2. Call(k) \in CallType
  BY CallOK
<1>3. calls' \in Seq(CallType)
  <2> HIDE DEF CallType, Call
  <2> QED
    BY <1>1, <1>2
<1> QED
  BY <1>3, OnlyCalls DEF AddPass

\* What a call asks for.
LEMMA CallerOK ==
  ASSUME IInv, Scheduling
  PROVE  /\ Caller \in CallType /\ calls[1] = Caller /\ 1 \in DOMAIN calls
         /\ Caller.kind \in Kind /\ Tail(calls) \in Seq(CallType)
<1>1. calls \in Seq(CallType) /\ calls # <<>>
  BY DEF IInv, Stack, Scheduling
<1>2. Caller \in CallType /\ calls[1] = Caller /\ 1 \in DOMAIN calls /\ Tail(calls) \in Seq(CallType)
  <2> HIDE DEF CallType
  <2> QED
    BY <1>1 DEF Caller
<1>3. Caller.kind \in Kind
  BY <1>2, PassManagerAssumption DEF CallType
<1> QED
  BY <1>2, <1>3

LEMMA RequiredIsThereKeeps ==
  ASSUME IInv, RequiredIsThere
  PROVE  IInv'
<1>1. Caller \in CallType /\ calls[1] = Caller /\ 1 \in DOMAIN calls /\ calls \in Seq(CallType)
  BY CallerOK DEF RequiredIsThere, IInv, Stack
<1>2. [Caller EXCEPT !.next = @ + 1] \in CallType
  BY <1>1 DEF CallType
<1>3. calls' = [calls EXCEPT ![1] = [Caller EXCEPT !.next = @ + 1]]
  BY <1>1 DEF RequiredIsThere
<1>4. calls' \in Seq(CallType)
  <2> HIDE DEF CallType, Caller
  <2> QED
    BY <1>1, <1>2, <1>3
<1> QED
  BY <1>4, OnlyCalls DEF RequiredIsThere, Scheduling

LEMMA ScheduleRequiredKeeps ==
  ASSUME IInv, ScheduleRequired
  PROVE  IInv'
<1> DEFINE k == Creates(Wanted)
           called == IF IsThere(k) THEN <<>> ELSE <<Call(k)>>
           above == PotentialPassManagerType(Caller.kind) > PotentialPassManagerType(k)
           back == [kind |-> Caller.kind, next |-> Caller.next + 1, again |-> Caller.again \/ above]
<1>1. Caller \in CallType /\ Caller.kind \in Kind /\ Tail(calls) \in Seq(CallType)
  BY CallerOK DEF ScheduleRequired, IInv, Stack
<1>2. back \in CallType
  <2>1. (Caller.again \/ above) \in BOOLEAN
    OBVIOUS
  <2> HIDE DEF above
  <2> QED
    BY <2>1, <1>1 DEF CallType
<1>3. calls' = called \o <<back>> \o Tail(calls)
  BY DEF ScheduleRequired
<1>4. Call(k) \in CallType
  <2>1. Caller.next \in DOMAIN Requires[Caller.kind]
    <3>1. Requires[Caller.kind] \in Seq(ID)
      BY <1>1, PassManagerAssumption
    <3>2. Caller.next \in Nat \ {0} /\ Caller.next <= Len(Requires[Caller.kind])
      BY <1>1 DEF CallType, ScheduleRequired
    <3> QED
      BY <3>1, <3>2
  <2>2. Wanted \in ID
    BY <2>1, <1>1, PassManagerAssumption DEF Wanted
  <2>3. k \in Kind
    BY <2>2, PassManagerAssumption DEF Creates, ID
  <2>4. functionTop => k \in ForFunctions
    BY <2>1, <1>1, PassManagerAssumption DEF Wanted, CallType
  <2> QED
    BY <2>3, <2>4, CallOK
<1>5. calls' \in Seq(CallType)
  <2> HIDE DEF CallType, Caller, Call, back, k
  <2>1. <<back>> \in Seq(CallType) /\ called \in Seq(CallType) /\ Tail(calls) \in Seq(CallType)
    BY <1>1, <1>2, <1>4
  <2> QED
    BY <1>3, <2>1
<1> QED
  BY <1>5, OnlyCalls DEF ScheduleRequired, Scheduling

LEMMA CheckAgainKeeps ==
  ASSUME IInv, CheckAgain
  PROVE  IInv'
<1>1. Caller \in CallType /\ calls[1] = Caller /\ 1 \in DOMAIN calls /\ calls \in Seq(CallType)
  BY CallerOK DEF CheckAgain, IInv, Stack
<1>2. Call(Caller.kind) \in CallType
  BY <1>1, CallOK DEF CallType
<1>3. calls' \in Seq(CallType)
  <2> HIDE DEF CallType, Caller, Call
  <2> QED
    BY <1>1, <1>2 DEF CheckAgain
<1> QED
  BY <1>3, OnlyCalls DEF CheckAgain, Scheduling

\* What is added is known to the client's call, and the state is as after a pass.
LEMMA AddModulePassKeeps ==
  ASSUME IInv, AddModulePass
  PROVE  IInv'
<1> DEFINE avail == [m \in Managers |-> IF m \in InheritedAnalysis(Root) THEN Nothing
                                        ELSE AvailableAnalysis[m]]
<1>1. /\ phase = "build" /\ phase' = "build" /\ ~unreachable /\ functionTop' = functionTop
      /\ activeStack' = <<Root>> /\ calls' = Tail(calls) /\ Caller.kind \in ModuleLevel
      /\ Adds(Caller.kind, Root, passes, PassVector, avail, LastUser, {})
  BY DEF AddModulePass, Scheduling
<1>2. Caller.kind \in Kind /\ calls' \in Seq(CallType) /\ ~functionTop
  BY <1>1, CallerOK, PassManagerAssumption DEF AddModulePass, CallType
<1>3. CallType' = CallType
  BY <1>1 DEF CallType
<1>4. /\ Schedules /\ Listed /\ Managers \subseteq Nat /\ Root \in Managers
      /\ \A n \in Managers \ {Root} : DOMAIN avail[n] = {}
      /\ avail[Root] = AvailableAnalysis[Root]
  <2>1. Schedules /\ Listed /\ Managers \subseteq Nat /\ Root \in Managers
    BY PassNumbers DEF IInv, Schedules
  <2>2. ASSUME NEW n \in Managers \ {Root}
        PROVE  DOMAIN avail[n] = {}
    BY <1>1 DEF IInv, Stack, InheritedAnalysis, Nothing
  <2>3. avail[Root] = AvailableAnalysis[Root]
    BY <2>1 DEF InheritedAnalysis
  <2> QED
    BY <2>1, <2>2, <2>3
<1>5. CASE unreachable'
  <2>1. UNCHANGED <<functionTop, passes, PassVector, LastUser, AvailableAnalysis>>
    BY <1>1, <1>5 DEF Adds
  <2>2. Schedules' /\ Managers' = Managers /\ Passes' = Passes
    BY <1>4, <2>1, SameSchedule
  <2>3. Listed'
    BY <1>4, <2>1, <2>2 DEF Listed, ManagerOf
  <2>4. Stack'
    BY <1>1, <1>2, <1>3, <1>5 DEF Stack, Root
  <2> QED
    BY <1>1, <2>2, <2>3, <2>4 DEF IInv
<1>6. CASE ~unreachable'
  <2>1. avail = [n \in Managers |-> avail[n]]
    OBVIOUS
  <2>2. \A n \in Managers : \A id \in DOMAIN avail[n] :
          avail[n][id] \in Passes /\ ManagerOf(avail[n][id]) = n
    BY <1>4 DEF Listed
  <2> HIDE DEF avail
  <2>3. /\ Schedules' /\ Listed' /\ Managers' = Managers
        /\ \A n \in Managers \ {Root} : DOMAIN AvailableAnalysis'[n] = {}
    <3>1. PICK k \in Kind : k = Caller.kind /\ k \in ModuleLevel
      BY <1>1, <1>2
    <3>2. k \in ModuleLevel <=> Root = Root /\ ~functionTop
      BY <1>2, <3>1
    <3>3. Adds(k, Root, passes, PassVector, avail, LastUser, {})
      BY <1>1, <3>1
    <3>4. \A n \in Managers \ {Root, Root} : DOMAIN avail[n] = {}
      BY <1>4
    <3>5. Schedules /\ functionTop' = functionTop /\ Root \in Managers
      BY <1>1, <1>4
    <3>6. \A n \in Managers \ {Root} :
            DOMAIN avail[n] = {} => DOMAIN AvailableAnalysis'[n] = {}
      BY <3>2, <3>3, <3>4, <3>5, <1>6, <2>1, <2>2, AddsKeepsSchedule
    <3>7. Schedules' /\ Listed' /\ Managers' = Managers
      BY <3>2, <3>3, <3>4, <3>5, <1>6, <2>1, <2>2, AddsKeepsSchedule
    <3> QED
      BY <3>6, <3>7, <1>4
  <2>4. Stack'
    BY <1>1, <1>2, <1>3, <2>3 DEF Stack, Root
  <2> QED
    BY <1>1, <2>3, <2>4 DEF IInv
<1> QED
  BY <1>5, <1>6

LEMMA AddFunctionPassKeeps ==
  ASSUME IInv, AddFunctionPass
  PROVE  IInv'
<1>m. PICK m : m = activeStack[Len(activeStack)]
  OBVIOUS
<1>1. /\ phase = "build" /\ phase' = "build" /\ ~unreachable /\ functionTop' = functionTop
      /\ activeStack' = activeStack /\ calls' = Tail(calls) /\ Caller.kind \notin ModuleLevel
      /\ Adds(Caller.kind, m, passes, PassVector, AvailableAnalysis, LastUser,
              InheritedAnalysis(m))
      /\ functionTop \/ Len(activeStack) = 2
  BY <1>m DEF AddFunctionPass, Scheduling
<1>2. Caller.kind \in Kind /\ calls' \in Seq(CallType)
  BY <1>1, CallerOK DEF AddFunctionPass
<1>3. CallType' = CallType
  BY <1>1 DEF CallType
<1>4. /\ Schedules /\ Listed /\ Managers \subseteq Nat /\ Root \in Managers
      /\ \A n \in Managers : n # Root => n \in Pass /\ ManagerOf(n) = Root /\ ~functionTop
  BY PassNumbers DEF IInv, Schedules
<1>5. /\ m \in Managers /\ {activeStack[i] : i \in DOMAIN activeStack} = {Root, m}
      /\ m = Root => functionTop
      /\ activeStack = <<Root>> \/ \E n \in Managers \ {Root} : activeStack = <<Root, n>>
  <2>1. CASE activeStack = <<Root>>
    BY <1>m, <1>1, <1>4, <2>1
  <2>2. CASE \E n \in Managers \ {Root} : activeStack = <<Root, n>>
    BY <1>m, <1>1, <1>4, <2>2
  <2> QED
    BY <2>1, <2>2 DEF IInv, Stack
<1>6. CASE unreachable'
  <2>1. UNCHANGED <<functionTop, passes, PassVector, LastUser, AvailableAnalysis>>
    BY <1>1, <1>6 DEF Adds
  <2>2. Schedules' /\ Managers' = Managers /\ Passes' = Passes
    BY <1>4, <2>1, SameSchedule
  <2>3. Listed'
    BY <1>4, <2>1, <2>2 DEF Listed, ManagerOf
  <2>4. Stack'
    BY <1>1, <1>2, <1>3, <1>5, <1>6, <2>2 DEF Stack, Root
  <2> QED
    BY <1>1, <2>2, <2>3, <2>4 DEF IInv
<1>7. CASE ~unreachable'
  <2>1. /\ AvailableAnalysis = [n \in Managers |-> AvailableAnalysis[n]]
        /\ \A n \in Managers : \A id \in DOMAIN AvailableAnalysis[n] :
             AvailableAnalysis[n][id] \in Passes /\ ManagerOf(AvailableAnalysis[n][id]) = n
    BY <1>4 DEF Listed
  <2>2. \A n \in Managers \ {Root, m} : DOMAIN AvailableAnalysis[n] = {}
    BY <1>1, <1>5 DEF IInv, Stack
  <2>3. m # Root => \A p \in Pass : ManagerOf(p) = Root => p <= m
    <3>1. \E i \in DOMAIN activeStack : activeStack[i] = m
      BY <1>5
    <3> QED
      BY <3>1, <1>1 DEF IInv, Stack
  <2>4. Caller.kind \in ModuleLevel <=> m = Root /\ ~functionTop
    BY <1>1, <1>5
  <2>5. /\ Schedules' /\ Listed' /\ Managers' = Managers /\ Pass \subseteq Pass'
        /\ \A p \in Pass' : ManagerOf(p)' = IF p \in Pass THEN ManagerOf(p) ELSE m
        /\ \A n \in Managers \ {m} :
             DOMAIN AvailableAnalysis[n] = {} => DOMAIN AvailableAnalysis'[n] = {}
    BY <1>1, <1>2, <1>4, <1>5, <1>7, <2>1, <2>2, <2>3, <2>4, AddsKeepsSchedule
  <2>6. Stack'
    <3>1. \A n \in Managers : n \notin {Root, m} => DOMAIN AvailableAnalysis'[n] = {}
      BY <2>2, <2>5
    <3>2. m # Root => \A p \in Pass' : ManagerOf(p)' = Root => p <= m
      BY <2>3, <2>5
    <3>3. /\ {activeStack'[i] : i \in DOMAIN activeStack'} = {Root, m}
          /\ activeStack' = <<Root>> \/ \E n \in Managers' \ {Root} : activeStack' = <<Root, n>>
      BY <1>1, <1>5, <2>5
    <3> QED
      BY <1>2, <1>3, <2>5, <3>1, <3>2, <3>3 DEF Stack, Root
  <2> QED
    BY <1>1, <2>5, <2>6 DEF IInv
<1> QED
  BY <1>6, <1>7

\* The new manager is the last pass of Root, and lists nothing.
LEMMA NewFPPassManagerKeeps ==
  ASSUME IInv, NewFPPassManager
  PROVE  IInv'
<1>p. PICK P : P = Len(passes) + 1
  OBVIOUS
<1> DEFINE S == [kind : Kind \cup {FPPassManager}, manager : Nat]
           new == [kind |-> FPPassManager, manager |-> Root]
<1>1. /\ phase = "build" /\ phase' = "build" /\ ~unreachable /\ ~unreachable'
      /\ functionTop' = functionTop /\ calls' = calls /\ ~functionTop /\ Len(activeStack) = 1
      /\ LastUser' = LastUser
      /\ passes' = Append(passes, new)
      /\ PassVector' = [n \in Managers \cup {P} |-> IF n = P THEN <<>>
                          ELSE IF n = Root THEN Append(PassVector[Root], P) ELSE PassVector[n]]
      /\ AvailableAnalysis' = [n \in Managers \cup {P} |-> IF n = P THEN Nothing
                                                          ELSE AvailableAnalysis[n]]
      /\ activeStack' = <<Root, P>>
  BY <1>p DEF NewFPPassManager, Scheduling
<1>2. /\ Pass = 1 .. Len(passes) /\ Len(passes) \in Nat /\ P \in Nat
      /\ Managers \subseteq Nat /\ Root \in Managers /\ Root \notin Pass
      /\ \A n \in Managers : n # Root => n \in Pass /\ ManagerOf(n) = Root
  BY <1>p, PassNumbers DEF IInv, Schedules
<1>3. Schedules /\ Listed /\ passes \in Seq(S) /\ new \in S
  BY <1>2 DEF IInv, Schedules, Managed
<1>4. /\ passes' \in Seq(S) /\ Pass' = 1 .. P /\ P \notin Pass
      /\ passes'[P] = new /\ \A p \in Pass : passes'[p] = passes[p]
  <2> HIDE DEF S, new
  <2> QED
    BY <1>p, <1>1, <1>2, <1>3 DEF Pass
<1>5. /\ Pass' = Pass \cup {P} /\ P # Root /\ P \notin Managers
      /\ \A p \in Pass : p <= P
  BY <1>p, <1>2, <1>4 DEF Root
<1>6. /\ KindOf(P)' = FPPassManager /\ ManagerOf(P)' = Root
      /\ \A p \in Pass : KindOf(p)' = KindOf(p) /\ ManagerOf(p)' = ManagerOf(p)
      /\ \A p \in Pass : passes'[p].manager = passes[p].manager
  BY <1>4 DEF KindOf, ManagerOf
<1>7. /\ IsManager(P)' /\ \A p \in Pass : IsManager(p)' <=> IsManager(p)
      /\ Managers' = Managers \cup {P} /\ Passes' = Passes
  <2>1. IsManager(P)' /\ \A p \in Pass : IsManager(p)' <=> IsManager(p)
    BY <1>6 DEF IsManager
  <2> QED
    BY <2>1, <1>5 DEF Managers, Passes, Root
<1>8. Managed'
  <2>1. \A p \in Pass :
          /\ ManagerOf(p) \in Managers
          /\ IsManager(p) => ManagerOf(p) = Root
          /\ ~IsManager(p) => (KindOf(p) \in ModuleLevel <=> ManagerOf(p) = Root)
    BY <1>1, <1>3 DEF Schedules, Managed
  <2>2. \A p \in Pass' :
          /\ ManagerOf(p)' \in Managers'
          /\ IsManager(p)' => ManagerOf(p)' = Root
          /\ ~IsManager(p)' => (KindOf(p)' \in ModuleLevel <=> ManagerOf(p)' = Root)
    BY <2>1, <1>2, <1>5, <1>6, <1>7
  <2>3. functionTop' \in BOOLEAN /\ ~functionTop'
    BY <1>1, <1>3 DEF Schedules, Managed
  <2> QED
    BY <2>2, <2>3, <1>4 DEF Managed, Root
<1>9. Vectors'
  <2>1. PassVector \in [Managers -> Seq(Nat)] /\ PassVector[Root] \in Seq(Nat)
    BY <1>2, <1>3 DEF Schedules, Vectors
  <2>2. PassVector' \in [Managers' -> Seq(Nat)]
    BY <1>1, <1>2, <1>7, <2>1
  <2>3. /\ PassVector'[P] = <<>> /\ PassVector'[Root] = Append(PassVector[Root], P)
        /\ \A n \in Managers \ {Root} : PassVector'[n] = PassVector[n]
    BY <1>1, <1>2, <1>5
  <2>4. PICK L \in Nat :
          /\ DOMAIN PassVector[Root] = 1 .. L /\ DOMAIN PassVector'[Root] = 1 .. (L + 1)
          /\ \A i \in DOMAIN PassVector[Root] : PassVector'[Root][i] = PassVector[Root][i]
          /\ PassVector'[Root][L + 1] = P
    <3>1. /\ DOMAIN PassVector[Root] = 1 .. Len(PassVector[Root]) /\ Len(PassVector[Root]) \in Nat
          /\ DOMAIN PassVector'[Root] = 1 .. (Len(PassVector[Root]) + 1)
          /\ \A i \in DOMAIN PassVector[Root] : PassVector'[Root][i] = PassVector[Root][i]
          /\ PassVector'[Root][Len(PassVector[Root]) + 1] = P
      BY <2>1, <2>3, <1>2
    <3> QED
      BY <3>1
  <2>5. \A n \in Managers :
          /\ \A i \in DOMAIN PassVector[n] :
               PassVector[n][i] \in Pass /\ passes[PassVector[n][i]].manager = n
          /\ \A i, j \in DOMAIN PassVector[n] : i < j => PassVector[n][i] < PassVector[n][j]
    BY <1>3 DEF Schedules, Vectors, ManagerOf
  <2>6. ASSUME NEW n \in Managers \cup {P}
        PROVE  /\ \A i \in DOMAIN PassVector'[n] :
                    PassVector'[n][i] \in Pass' /\ passes'[PassVector'[n][i]].manager = n
               /\ \A i, j \in DOMAIN PassVector'[n] :
                    i < j => PassVector'[n][i] < PassVector'[n][j]
    <3>1. CASE n = P
      BY <2>3, <3>1
    <3>2. CASE n \in Managers \ {Root}
      BY <2>3, <2>5, <3>2, <1>5, <1>6
    <3>3. CASE n = Root
      <4>1. \A i \in 1 .. L : /\ PassVector'[Root][i] = PassVector[Root][i]
                              /\ PassVector[Root][i] \in Pass /\ PassVector[Root][i] < P
                              /\ passes'[PassVector[Root][i]].manager = Root
        <5>1. \A i \in 1 .. L : PassVector[Root][i] \in Pass /\ passes[PassVector[Root][i]].manager = Root
          BY <2>4, <2>5, <1>2
        <5>2. \A q \in Pass : q < P
          BY <1>2, <1>p
        <5> QED
          BY <5>1, <5>2, <2>4, <1>6
      <4>2. passes'[P].manager = Root
        BY <1>6 DEF ManagerOf
      <4>3. \A i \in 1 .. (L + 1) :
              PassVector'[Root][i] \in Pass' /\ passes'[PassVector'[Root][i]].manager = Root
        BY <4>1, <4>2, <2>4, <1>5
      <4>4. ASSUME NEW i \in 1 .. (L + 1), NEW j \in 1 .. (L + 1), i < j
            PROVE  PassVector'[Root][i] < PassVector'[Root][j]
        <5>1. i \in 1 .. L /\ (j \in 1 .. L \/ j = L + 1)
          BY <4>4
        <5> QED
          BY <5>1, <4>1, <4>4, <2>4, <2>5, <1>2
      <4> QED
        BY <4>3, <4>4, <2>4, <3>3
    <3> QED
      BY <3>1, <3>2, <3>3
  <2>7. \A p \in Pass' :
          \E i \in DOMAIN PassVector'[ManagerOf(p)'] : PassVector'[ManagerOf(p)'][i] = p
    <3>1. ASSUME NEW p \in Pass
          PROVE  \E i \in DOMAIN PassVector'[ManagerOf(p)] : PassVector'[ManagerOf(p)][i] = p
      <4>1. ManagerOf(p) \in Managers
        BY <1>3 DEF Schedules, Managed
      <4>2. PICK i \in DOMAIN PassVector[ManagerOf(p)] : PassVector[ManagerOf(p)][i] = p
        BY <1>3 DEF Schedules, Vectors
      <4> QED
        BY <4>1, <4>2, <2>3, <2>4
    <3>2. \E i \in DOMAIN PassVector'[Root] : PassVector'[Root][i] = P
      BY <2>4
    <3> QED
      BY <3>1, <3>2, <1>5, <1>6
  <2> QED
    BY <2>2, <2>6, <2>7, <1>7 DEF Vectors, ManagerOf
<1>10. LastUsers'
  <2>1. /\ LastUser \in [Passes -> Pass] /\ Passes \subseteq Pass
        /\ \A p \in Passes :
             passes[LastUser[p]].manager = passes[p].manager /\ p <= LastUser[p]
    BY <1>3 DEF Schedules, LastUsers, ManagerOf, Passes
  <2>2. \A p \in Passes : passes'[LastUser[p]].manager = passes'[p].manager
    BY <2>1, <1>6
  <2> QED
    BY <2>1, <2>2, <1>1, <1>5, <1>7 DEF LastUsers, ManagerOf
<1>11. Listed'
  <2>1. AvailableAnalysis' = [n \in Managers' |-> AvailableAnalysis'[n]]
    BY <1>1, <1>7
  <2>2. DOMAIN AvailableAnalysis'[P] = {}
    BY <1>1 DEF Nothing
  <2>3. ASSUME NEW n \in Managers, NEW id \in DOMAIN AvailableAnalysis'[n]
        PROVE  /\ AvailableAnalysis'[n][id] \in Passes
               /\ passes'[AvailableAnalysis'[n][id]].manager = n
    <3>1. AvailableAnalysis'[n] = AvailableAnalysis[n]
      BY <1>1, <1>5
    <3>2. AvailableAnalysis[n][id] \in Passes /\ passes[AvailableAnalysis[n][id]].manager = n
      BY <3>1, <1>3 DEF Listed, ManagerOf
    <3> QED
      BY <3>1, <3>2, <1>6 DEF Passes
  <2> QED
    BY <2>1, <2>2, <2>3, <1>7 DEF Listed, ManagerOf
<1>12. Stack'
  <2>1. activeStack = <<Root>> /\ activeStack' = <<Root, P>>
    <3>0. Len(activeStack) = 1 /\ activeStack' = <<Root, P>>
      BY <1>p DEF NewFPPassManager
    <3>1. activeStack = <<Root>> \/ \E n : activeStack = <<Root, n>>
      BY DEF IInv, Stack
    <3>2. ASSUME NEW n, activeStack = <<Root, n>>
          PROVE  FALSE
      <4>1. Len(activeStack) = 2
        BY <3>2
      <4> QED
        BY <4>1, <3>0
    <3> QED
      BY <3>0, <3>1, <3>2
  <2>2. {activeStack'[i] : i \in DOMAIN activeStack'} = {Root, P}
    BY <2>1
  <2>3. \A n \in Managers \ {Root} : DOMAIN AvailableAnalysis[n] = {}
    BY <1>1, <2>1 DEF IInv, Stack
  <2>4. \A n \in Managers' : n \notin {Root, P} => DOMAIN AvailableAnalysis'[n] = {}
    BY <2>3, <1>1, <1>5, <1>7
  <2>5. \A p \in Pass' : p <= P
    BY <1>2, <1>5
  <2>6. CallType' = CallType
    BY <1>1 DEF CallType
  <2> QED
    BY <2>1, <2>2, <2>4, <2>5, <2>6, <1>1, <1>5, <1>7 DEF IInv, Stack, Root
<1> QED
  BY <1>1, <1>8, <1>9, <1>10, <1>11, <1>12 DEF IInv, Schedules

------------------------------------------------------------------------------
(* Running.                                                                *)

\* The schedule, and what it says of managers, stays as it is during a run.
LEMMA RunKeeps ==
  ASSUME IInv, phase' # "build",
         UNCHANGED <<functionTop, calls, passes, PassVector, LastUser, activeStack>>
  PROVE  /\ Schedules' /\ Stack' /\ Pass' = Pass /\ Passes' = Passes /\ Managers' = Managers
         /\ \A p \in Pass : ManagerOf(p)' = ManagerOf(p) /\ KindOf(p)' = KindOf(p)
<1>1. Schedules' /\ Pass' = Pass /\ Passes' = Passes /\ Managers' = Managers
  BY SameSchedule DEF IInv
<1>2. Stack'
  BY <1>1 DEF IInv, Stack, CallType, Root
<1> QED
  BY <1>1, <1>2 DEF ManagerOf, KindOf

\* The manager in charge, and where it is.
LEMMA InCharge ==
  ASSUME IInv, phase = "run"
  PROVE  /\ Manager \in Managers
         /\ Manager = Root /\ ~functionTop <=> function = 0
         /\ Index = Position(Manager) /\ Index \in Nat \ {0} /\ Of(Manager) = function
         /\ Manager # Root =>
              /\ function # 0 /\ ~functionTop
              /\ top \in DOMAIN PassVector[Root] /\ Manager = PassVector[Root][top]
         /\ \A m \in Managers : /\ DOMAIN PassVector[m] = 1 .. Len(PassVector[m])
                                /\ Len(PassVector[m]) \in Nat
<1>1. Place /\ Schedules
  BY DEF IInv
<1>2. Root \in Managers /\ \A m \in Managers : m # Root => ~functionTop
  BY <1>1, PassNumbers DEF Schedules
<1>3. CASE function = 0 \/ functionTop
  BY <1>1, <1>2, <1>3 DEF Place, Manager, Index, Position, Of
<1>4. CASE function # 0 /\ ~functionTop
  <2>1. /\ Manager = PassVector[Root][top] /\ top \in DOMAIN PassVector[Root]
        /\ IsManager(PassVector[Root][top])
    BY <1>1, <1>4 DEF Place, Manager
  <2>2. PassVector[Root][top] \in Pass
    BY <1>1, <1>2, <2>1 DEF Schedules, Vectors
  <2>3. Manager \in Managers /\ Manager # Root
    BY <1>1, <2>1, <2>2, PassNumbers DEF Managers, Schedules
  <2> QED
    BY <1>1, <1>4, <2>1, <2>3 DEF Place, Index, Position, Of
<1>5. \A m \in Managers : /\ DOMAIN PassVector[m] = 1 .. Len(PassVector[m])
                          /\ Len(PassVector[m]) \in Nat
  BY <1>1 DEF Schedules, Vectors
<1>6. Index \in Nat \ {0}
  BY <1>1 DEF Place, Index
<1> QED
  BY <1>1, <1>2, <1>3, <1>4, <1>5, <1>6

\* Past its last pass, nothing of the manager in charge has a result.
LEMMA NothingOfManager ==
  ASSUME IInv, PastLast
  PROVE  \A p \in Pass : results[p] # None => ManagerOf(p) = Root /\ Manager # Root
<1>1. SUFFICES ASSUME NEW p \in Pass, results[p] # None, ManagerOf(p) = Manager
               PROVE  FALSE
  BY DEF IInv, Results, PastLast
<1>2. PICK i \in DOMAIN PassVector[Manager] : i >= Position(Manager)
  BY <1>1 DEF IInv, Results, PastLast
<1> QED
  BY <1>2, InCharge DEF PastLast

LEMMA BeginRunKeeps ==
  ASSUME IInv, BeginRun
  PROVE  IInv'
<1>1. /\ phase' = "run" /\ AvailableAnalysis' = Cleared /\ results' = [p \in Pass |-> None]
      /\ top' = 1 /\ function' = (IF functionTop THEN 1 ELSE 0) /\ index' = 1 /\ running' = None
      /\ UNCHANGED <<functionTop, calls, passes, PassVector, LastUser, activeStack>>
  BY DEF BeginRun, buildVars
<1>2. /\ Schedules' /\ Stack' /\ Pass' = Pass /\ Managers' = Managers
  BY <1>1, RunKeeps
<1>3. Listed' /\ Available'
  <2>1. \A m \in Managers : DOMAIN AvailableAnalysis'[m] = {}
    BY <1>1 DEF Cleared, Nothing
  <2>2. AvailableAnalysis' = [m \in Managers' |-> AvailableAnalysis'[m]]
    BY <1>1, <1>2 DEF Cleared
  <2> QED
    BY <1>2, <2>1, <2>2 DEF Listed, Available
<1>4. Place' /\ Results'
  BY <1>1, <1>2, PassManagerAssumption DEF Place, Results
<1> QED
  BY <1>1, <1>2, <1>3, <1>4 DEF IInv

LEMMA EnterManagerKeeps ==
  ASSUME IInv, EnterManager
  PROVE  IInv'
<1>1. /\ phase = "run" /\ phase' = "run" /\ running = None /\ running' = None
      /\ Index <= Len(PassVector[Manager]) /\ IsManager(PassVector[Manager][Index])
      /\ function' = 1 /\ index' = 1
      /\ UNCHANGED <<functionTop, calls, passes, PassVector, LastUser, activeStack,
                     AvailableAnalysis, top, results>>
  BY DEF EnterManager, AtPass, Current, buildVars
<1>2. /\ Schedules' /\ Stack' /\ Pass' = Pass /\ Passes' = Passes /\ Managers' = Managers
      /\ \A p \in Pass : ManagerOf(p)' = ManagerOf(p) /\ KindOf(p)' = KindOf(p)
  BY <1>1, RunKeeps
<1>3. Schedules /\ Listed /\ Place /\ Results /\ Available
  BY <1>1 DEF IInv
<1>4. /\ Manager = Root /\ ~functionTop /\ function = 0 /\ top \in DOMAIN PassVector[Root]
      /\ IsManager(PassVector[Root][top]) /\ Index = top
  <2>1. Index \in DOMAIN PassVector[Manager] /\ Manager \in Managers
    BY <1>1, InCharge
  <2>2. PassVector[Manager][Index] \in Pass /\ ManagerOf(PassVector[Manager][Index]) = Manager
    BY <1>3, <2>1 DEF Schedules, Vectors
  <2>3. Manager = Root /\ ~functionTop
    BY <1>1, <1>3, <2>2 DEF Schedules, Managed
  <2>4. function = 0
    BY <1>1, <2>3, InCharge
  <2> QED
    BY <1>1, <2>1, <2>3, <2>4 DEF Index
<1>5. Place'
  BY <1>1, <1>3, <1>4, PassManagerAssumption DEF Place, IsManager, KindOf, Root
<1>6. Listed' /\ Available'
  BY <1>1, <1>2, <1>3 DEF Listed, Available, ManagerOf, Ids, Passes
<1>7. Results'
  <2>1. ASSUME NEW p \in Pass, results[p] # None
        PROVE  /\ results[p] \in [of : {0}, ids : SUBSET ID]
               /\ p \in Passes /\ ManagerOf(p) = Root
               /\ \E i \in DOMAIN PassVector[Root] : i >= top /\ PassVector[Root][i] = LastUser[p]
    BY <2>1, <1>3, <1>4 DEF Results, Of, Position
  <2>2. results' = [p \in Pass |-> results'[p]] /\ ~functionTop'
    BY <1>1, <1>3, <1>4 DEF Results
  <2> QED
    BY <1>1, <1>2, <2>1, <2>2 DEF Results, Of, Position, Root
<1> QED
  BY <1>1, <1>2, <1>5, <1>6, <1>7 DEF IInv

LEMMA initializeAnalysisImplKeeps ==
  ASSUME IInv, initializeAnalysisImpl
  PROVE  IInv'
<1>1. /\ phase = "run" /\ phase' = "run"
      /\ Index <= Len(PassVector[Manager]) /\ ~IsManager(Current) /\ running' = Current
      /\ UNCHANGED <<functionTop, calls, passes, PassVector, LastUser, activeStack,
                     AvailableAnalysis, top, function, index, results>>
  BY DEF initializeAnalysisImpl, AtPass, buildVars
<1>2. /\ Schedules' /\ Stack' /\ Pass' = Pass /\ Passes' = Passes /\ Managers' = Managers
      /\ \A p \in Pass : ManagerOf(p)' = ManagerOf(p) /\ KindOf(p)' = KindOf(p)
  BY <1>1, RunKeeps
<1>3. Schedules /\ Listed /\ Place /\ Results /\ Available
  BY <1>1 DEF IInv
<1>4. Manager' = Manager /\ Index' = Index /\ Current' = Current
  BY <1>1 DEF Manager, Index, Current, Root
<1>5. Place'
  <2>1. Index \in DOMAIN PassVector[Manager]
    BY <1>1, InCharge
  <2> QED
    BY <1>1, <1>3, <1>4, <2>1 DEF Place, IsManager, KindOf, Root
<1>6. Listed' /\ Available' /\ Results'
  BY <1>1, <1>2, <1>3, <1>4 DEF Listed, Available, Results, ManagerOf, Ids, Passes, Of, Position, Root
<1> QED
  BY <1>1, <1>2, <1>5, <1>6 DEF IInv

LEMMA NextFunctionKeeps ==
  ASSUME IInv, NextFunction
  PROVE  IInv'
<1>1. /\ phase = "run" /\ phase' = "run" /\ running' = None /\ PastLast /\ ~functionTop
      /\ function \in 1 .. (NumFunctions - 1) /\ function' = function + 1 /\ index' = 1
      /\ UNCHANGED <<functionTop, calls, passes, PassVector, LastUser, activeStack,
                     AvailableAnalysis, top, results>>
  BY DEF NextFunction, PastLast, buildVars
<1>2. /\ Schedules' /\ Stack' /\ Pass' = Pass /\ Passes' = Passes /\ Managers' = Managers
      /\ \A p \in Pass : ManagerOf(p)' = ManagerOf(p) /\ KindOf(p)' = KindOf(p)
  BY <1>1, RunKeeps
<1>3. Schedules /\ Listed /\ Place /\ Results /\ Available
  BY <1>1 DEF IInv
<1>4. function' # 0 /\ function' \in 0 .. NumFunctions
  BY <1>1, PassManagerAssumption
<1>5. Place'
  BY <1>1, <1>3, <1>4 DEF Place, IsManager, KindOf, Root
<1>6. Listed' /\ Available'
  BY <1>1, <1>2, <1>3 DEF Listed, Available, ManagerOf, Ids, Passes
<1>7. Results'
  <2>1. ASSUME NEW p \in Pass, results[p] # None
        PROVE  /\ results[p] \in [of : {0}, ids : SUBSET ID]
               /\ p \in Passes /\ ManagerOf(p) = Root
               /\ \E i \in DOMAIN PassVector[Root] : i >= top /\ PassVector[Root][i] = LastUser[p]
    <3>1. ManagerOf(p) = Root
      BY <1>1, <2>1, NothingOfManager
    <3> QED
      BY <1>1, <1>3, <2>1, <3>1 DEF Results, Of, Position
  <2>2. results' = [p \in Pass |-> results'[p]] /\ ~functionTop'
    BY <1>1, <1>3 DEF Results
  <2> QED
    BY <1>1, <1>2, <2>1, <2>2 DEF Results, Of, Position, Root
<1> QED
  BY <1>1, <1>2, <1>5, <1>6, <1>7 DEF IInv

LEMMA RunNextFunctionKeeps ==
  ASSUME IInv, RunNextFunction
  PROVE  IInv'
<1>1. /\ phase = "run" /\ phase' = "run" /\ running' = None /\ PastLast /\ functionTop
      /\ function < NumFunctions /\ function' = function + 1 /\ index' = 1
      /\ AvailableAnalysis' = Cleared
      /\ UNCHANGED <<functionTop, calls, passes, PassVector, LastUser, activeStack, top, results>>
  BY DEF RunNextFunction, PastLast, buildVars
<1>2. /\ Schedules' /\ Stack' /\ Pass' = Pass /\ Passes' = Passes /\ Managers' = Managers
  BY <1>1, RunKeeps
<1>3. Place /\ Results
  BY <1>1 DEF IInv
<1>4. Place'
  BY <1>1, <1>3, PassManagerAssumption DEF Place
<1>5. Listed' /\ Available'
  <2>1. \A m \in Managers : DOMAIN AvailableAnalysis'[m] = {}
    BY <1>1 DEF Cleared, Nothing
  <2>2. AvailableAnalysis' = [m \in Managers' |-> AvailableAnalysis'[m]]
    BY <1>1, <1>2 DEF Cleared
  <2> QED
    BY <1>2, <2>1, <2>2 DEF Listed, Available
<1>6. Results'
  <2>1. \A p \in Pass : results[p] = None
    BY <1>1, NothingOfManager DEF Manager
  <2> QED
    BY <1>1, <1>2, <1>3, <2>1 DEF Results
<1> QED
  BY <1>1, <1>2, <1>4, <1>5, <1>6 DEF IInv

LEMMA EndRunKeeps ==
  ASSUME IInv, EndRun
  PROVE  IInv'
<1>1. /\ phase = "run" /\ phase' = "done" /\ PastLast
      /\ function = IF functionTop THEN NumFunctions ELSE 0
      /\ UNCHANGED <<functionTop, calls, passes, PassVector, LastUser, activeStack,
                     AvailableAnalysis, results>>
  BY DEF EndRun, PastLast, buildVars, runVars
<1>2. /\ Schedules' /\ Stack' /\ Pass' = Pass /\ Passes' = Passes /\ Managers' = Managers
      /\ \A p \in Pass : ManagerOf(p)' = ManagerOf(p)
  BY <1>1, RunKeeps
<1>3. Listed'
  BY <1>1, <1>2 DEF IInv, Listed, ManagerOf, Passes
<1>4. \A p \in Pass : results[p] = None
  BY <1>1, NothingOfManager DEF Manager
<1>5. results' = [p \in Pass' |-> None]
  BY <1>1, <1>2, <1>4 DEF IInv, Results
<1> QED
  BY <1>1, <1>2, <1>3, <1>5 DEF IInv

\* A pass that is freed is not listed any more, under whatever ID it was.
LEMMA FreedIsNotListed ==
  ASSUME NEW avail, NEW m \in DOMAIN avail, NEW F, NEW id \in DOMAIN freePasses(avail, m, F)[m],
         id \in Ids(KindOf(avail[m][id]))
  PROVE  /\ id \in DOMAIN avail[m] /\ freePasses(avail, m, F)[m][id] = avail[m][id]
         /\ avail[m][id] \notin F
  BY DEF freePasses, Keeping, Ids

LEMMA LeaveManagerKeeps ==
  ASSUME IInv, LeaveManager
  PROVE  IInv'
<1> DEFINE dead == collectLastUses(Manager)
<1>1. /\ phase = "run" /\ phase' = "run" /\ running' = None /\ PastLast /\ ~functionTop
      /\ function = NumFunctions /\ function' = 0 /\ top' = top + 1
      /\ AvailableAnalysis' = freePasses(AvailableAnalysis, Root, dead)
      /\ results' = [q \in Pass |-> IF q \in dead THEN None ELSE results[q]]
      /\ UNCHANGED <<functionTop, calls, passes, PassVector, LastUser, activeStack, index>>
  BY DEF LeaveManager, PastLast, buildVars
<1>2. /\ Schedules' /\ Stack' /\ Pass' = Pass /\ Passes' = Passes /\ Managers' = Managers
      /\ \A p \in Pass : ManagerOf(p)' = ManagerOf(p) /\ KindOf(p)' = KindOf(p)
  BY <1>1, RunKeeps
<1>3. Schedules /\ Listed /\ Place /\ Results /\ Available
  BY <1>1 DEF IInv
<1>4. /\ Manager \in Managers /\ Root \in Managers /\ DOMAIN AvailableAnalysis = Managers
      /\ Manager # Root => Manager = PassVector[Root][top]
      /\ Manager # Root
  BY <1>1, <1>3, InCharge, PassNumbers, PassManagerAssumption DEF Listed, Schedules
<1>5. dead = {q \in Passes : LastUser[q] = Manager}
  BY <1>3 DEF collectLastUses, Schedules, LastUsers
<1>6. ASSUME NEW p \in Pass, results[p] # None, p \notin dead
      PROVE  /\ results[p] \in [of : {0}, ids : SUBSET ID]
             /\ p \in Passes /\ ManagerOf(p) = Root
             /\ \E i \in DOMAIN PassVector[Root] :
                  i >= top + 1 /\ PassVector[Root][i] = LastUser[p]
  <2>1. ManagerOf(p) = Root
    BY <1>1, <1>6, NothingOfManager
  <2>2. /\ results[p] \in [of : {0}, ids : SUBSET ID] /\ p \in Passes
        /\ \E i \in DOMAIN PassVector[Root] : i >= top /\ PassVector[Root][i] = LastUser[p]
    BY <1>1, <1>3, <1>6, <2>1 DEF Results, Of, Position
  <2>3. PICK i \in DOMAIN PassVector[Root] : i >= top /\ PassVector[Root][i] = LastUser[p]
    BY <2>2
  <2>4. i # top
    BY <2>2, <2>3, <1>4, <1>5, <1>6
  <2>5. i \in Nat /\ top \in Nat
    BY <1>1, <1>3, <1>4, InCharge DEF Place
  <2> QED
    BY <2>1, <2>2, <2>3, <2>4, <2>5
<1> HIDE DEF dead
<1>7. Place'
  BY <1>1, <1>3 DEF Place
<1>8. /\ AvailableAnalysis' = [m \in Managers |-> AvailableAnalysis'[m]]
      /\ \A m \in Managers \ {Root} : AvailableAnalysis'[m] = AvailableAnalysis[m]
  BY <1>1, <1>3, <1>4 DEF Listed, freePasses
<1>9. ASSUME NEW m \in Managers, NEW id \in DOMAIN AvailableAnalysis'[m]
      PROVE  /\ id \in DOMAIN AvailableAnalysis[m]
             /\ AvailableAnalysis'[m][id] = AvailableAnalysis[m][id]
             /\ AvailableAnalysis[m][id] \notin dead
  <2>1. CASE m = Root
    <3>1. DOMAIN AvailableAnalysis'[m] \subseteq DOMAIN AvailableAnalysis[m]
      BY <1>1, <1>4, <2>1 DEF freePasses, Keeping
    <3>2. id \in Ids(KindOf(AvailableAnalysis[m][id]))
      BY <3>1, <1>3 DEF Available
    <3> QED
      BY <3>2, <2>1, <1>1, <1>4, FreedIsNotListed
  <2>2. CASE m # Root
    <3>1. AvailableAnalysis'[m] = AvailableAnalysis[m]
      BY <1>8, <2>2
    <3>2. AvailableAnalysis[m][id] \in Pass /\ ManagerOf(AvailableAnalysis[m][id]) = m
      BY <3>1, <1>3 DEF Listed, Passes
    <3>3. results[AvailableAnalysis[m][id]] # None
      BY <3>1, <1>3 DEF Available
    <3> QED
      BY <3>2, <3>3, <2>2, <1>1, NothingOfManager
  <2> QED
    BY <2>1, <2>2
<1>10. Listed'
  BY <1>2, <1>3, <1>8, <1>9 DEF Listed, ManagerOf, Passes
<1>11. Available'
  <2>1. ASSUME NEW m \in Managers, NEW id \in DOMAIN AvailableAnalysis'[m]
        PROVE  LET q == AvailableAnalysis'[m][id]
               IN id \in Ids(KindOf(q)) /\ results'[q] # None /\ id \in results'[q].ids
    <3>1. PICK q : q = AvailableAnalysis'[m][id] /\ q = AvailableAnalysis[m][id] /\ q \notin dead
      BY <1>9
    <3>2. q \in Pass /\ id \in Ids(KindOf(q)) /\ results[q] # None /\ id \in results[q].ids
      BY <3>1, <1>3, <1>9 DEF Listed, Available, Passes
    <3> QED
      BY <3>1, <3>2, <1>1
  <2> QED
    BY <2>1, <1>1, <1>2 DEF Available, Ids, KindOf
<1>12. Results'
  <2>1. ASSUME NEW p \in Pass, results'[p] # None
        PROVE  /\ results'[p] \in [of : {0}, ids : SUBSET ID]
               /\ p \in Passes /\ ManagerOf(p) = Root
               /\ \E i \in DOMAIN PassVector[Root] :
                    i >= top + 1 /\ PassVector[Root][i] = LastUser[p]
    <3>1. p \notin dead /\ results'[p] = results[p]
      BY <2>1, <1>1
    <3> QED
      BY <3>1, <2>1, <1>6
  <2>2. results' = [p \in Pass |-> results'[p]] /\ ~functionTop'
    BY <1>1
  <2> QED
    BY <1>1, <1>2, <2>1, <2>2 DEF Results, Of, Position, Root
<1> QED
  BY <1>1, <1>2, <1>7, <1>10, <1>11, <1>12 DEF IInv

\* The pass that runs, and those it is the last to use, all of its manager.
LEMMA Running ==
  ASSUME IInv, phase = "run", running # None
  PROVE  /\ running \in Passes /\ ManagerOf(running) = Manager /\ KindOf(running) \in Kind
         /\ Ids(KindOf(running)) \subseteq ID
         /\ Index \in DOMAIN PassVector[Manager] /\ PassVector[Manager][Index] = running
         /\ collectLastUses(running) = {q \in Passes : LastUser[q] = running}
         /\ \A q \in collectLastUses(running) : ManagerOf(q) = Manager
<1>1. Schedules /\ Place
  BY DEF IInv
<1>2. /\ Index \in DOMAIN PassVector[Manager] /\ PassVector[Manager][Index] = running
      /\ ~IsManager(running)
  BY <1>1 DEF Place, Current
<1>3. Manager \in Managers
  BY InCharge
<1>4. running \in Passes /\ ManagerOf(running) = Manager
  BY <1>1, <1>2, <1>3 DEF Schedules, Vectors, Passes
<1>5. KindOf(running) \in Kind
  BY <1>1, <1>2, <1>4, PassNumbers DEF Schedules, IsManager, Passes
<1>6. Ids(KindOf(running)) \subseteq ID
  BY <1>5, PassManagerAssumption DEF Ids, ID
<1>7. collectLastUses(running) = {q \in Passes : LastUser[q] = running}
  BY <1>1 DEF collectLastUses, Schedules, LastUsers
<1>8. \A q \in collectLastUses(running) : ManagerOf(q) = Manager
  BY <1>1, <1>4, <1>7 DEF Schedules, LastUsers
<1> QED
  BY <1>2, <1>4, <1>5, <1>6, <1>7, <1>8

\* A function with this domain.
MapOn(D, f) == f = [x \in D |-> f[x]]

\* What RunPass makes of what is listed.
RunAvailable(avail, m, inherited, p, F) ==
  freePasses(recordAvailableAnalysis(
               removeNotPreservedAnalysis(avail, m, inherited, KindOf(p)), m, p), m, F)

\* What is listed after pass p of manager m has run: p, and what was and is preserved.
LEMMA ListedAfter ==
  ASSUME NEW D, NEW avail, MapOn(D, avail), NEW m \in D, NEW inherited,
         NEW p, NEW F, NEW n \in D,
         NEW id \in DOMAIN RunAvailable(avail, m, inherited, p, F)[n]
  PROVE  LET after == RunAvailable(avail, m, inherited, p, F)
         IN /\ \/ n = m /\ id \in Ids(KindOf(p)) /\ after[n][id] = p
               \/ /\ id \in DOMAIN avail[n] /\ after[n][id] = avail[n][id]
                  /\ n = m => id \notin Ids(KindOf(p))
                  /\ n \in {m} \cup inherited => id \in Preserves[KindOf(p)]
            /\ n = m /\ id \in Ids(KindOf(after[n][id])) => after[n][id] \notin F
<1>a. PICK after : after = RunAvailable(avail, m, inherited, p, F)
  OBVIOUS
<1>q. PICK k, I : k = KindOf(p) /\ I = Ids(KindOf(p))
  OBVIOUS
<1> DEFINE left == removeNotPreservedAnalysis(avail, m, inherited, k)
           with == recordAvailableAnalysis(left, m, p)
<1>0. after = freePasses(with, m, F) /\ id \in DOMAIN after[n]
  BY <1>a, <1>q DEF RunAvailable
<1>1. /\ left = [l \in D |-> left[l]]
      /\ \A i \in DOMAIN left[n] :
           /\ i \in DOMAIN avail[n] /\ left[n][i] = avail[n][i]
           /\ n \in {m} \cup inherited => i \in Preserves[k]
  BY DEF removeNotPreservedAnalysis, Keeping, MapOn
<1>2. /\ with = [l \in D |-> with[l]]
      /\ \A l \in D \ {m} : with[l] = left[l]
      /\ with[m] = [i \in DOMAIN left[m] \cup I |-> IF i \in I THEN p ELSE left[m][i]]
  <2>1. with = [left EXCEPT ![m] = [i \in DOMAIN @ \cup I |-> IF i \in I THEN p ELSE @[i]]]
    BY <1>q DEF recordAvailableAnalysis
  <2> HIDE DEF left, with
  <2> QED
    BY <2>1, <1>1
<1>3. /\ after = [l \in D |-> after[l]]
      /\ \A l \in D \ {m} : after[l] = with[l]
      /\ \A i \in DOMAIN after[m] : i \in DOMAIN with[m] /\ after[m][i] = with[m][i]
  <2> HIDE DEF with
  <2>1. PICK X : after = [with EXCEPT ![m] = Keeping(@, X)]
    BY <1>0 DEF freePasses
  <2>2. after[m] = Keeping(with[m], X)
    BY <2>1, <1>2
  <2> QED
    BY <2>1, <2>2, <1>2 DEF Keeping
<1>4. CASE n # m
  <2> HIDE DEF with, left
  <2> QED
    BY <1>a, <1>0, <1>1, <1>2, <1>3, <1>4, <1>q
<1>5. CASE n = m
  <2> HIDE DEF with, left
  <2>1. id \in DOMAIN with[m] /\ after[m][id] = with[m][id]
    BY <1>0, <1>3, <1>5
  <2>2. \/ id \in I /\ after[m][id] = p
        \/ id \notin I /\ id \in DOMAIN left[m] /\ after[m][id] = left[m][id]
    BY <2>1, <1>2
  <2>3. id \in Ids(KindOf(after[m][id])) => after[m][id] \notin F
    <3>1. m \in DOMAIN with /\ id \in DOMAIN freePasses(with, m, F)[m]
      BY <1>0, <1>2, <1>5
    <3> QED
      BY <3>1, <2>1, FreedIsNotListed
  <2> QED
    BY <1>a, <2>1, <2>2, <2>3, <1>1, <1>5, <1>q
<1> QED
  BY <1>a, <1>4, <1>5

LEMMA RunPassKeeps ==
  ASSUME IInv, RunPass
  PROVE  IInv'
<1>p. PICK p, m, k, dead, inherited :
        /\ p = running /\ m = Manager /\ k = KindOf(running) /\ dead = collectLastUses(running)
        /\ inherited = IF function = 0 THEN {} ELSE InheritedAnalysis(Manager)
  OBVIOUS
<1>1. /\ phase = "run" /\ phase' = "run" /\ running # None /\ running' = None
      /\ UNCHANGED <<functionTop, calls, passes, PassVector, LastUser, activeStack, function>>
      /\ IF function = 0 THEN top' = top + 1 /\ index' = index
                         ELSE index' = index + 1 /\ top' = top
  BY DEF RunPass, buildVars
<1>2. /\ AvailableAnalysis' =
           freePasses(recordAvailableAnalysis(
             removeNotPreservedAnalysis(AvailableAnalysis, m, inherited, KindOf(p)), m, p), m, dead)
      /\ results' = [q \in Pass |->
           IF q \in dead THEN None
           ELSE IF q = p THEN [of |-> function, ids |-> Ids(k)]
           ELSE IF results[q] = None THEN None
           ELSE [results[q] EXCEPT !.ids = @ \cap Preserves[k]]]
  BY <1>p DEF RunPass
<1>3. /\ Schedules' /\ Stack' /\ Pass' = Pass /\ Passes' = Passes /\ Managers' = Managers
      /\ \A q \in Pass : ManagerOf(q)' = ManagerOf(q) /\ KindOf(q)' = KindOf(q)
  BY <1>1, RunKeeps
<1>4. Schedules /\ Listed /\ Place /\ Results /\ Available
  BY <1>1 DEF IInv
<1>5. /\ p \in Passes /\ p \in Pass /\ ManagerOf(p) = m /\ k \in Kind /\ Ids(k) \subseteq ID
      /\ KindOf(p) = k
      /\ Index \in DOMAIN PassVector[m] /\ PassVector[m][Index] = p
      /\ dead = {q \in Passes : LastUser[q] = p} /\ \A q \in dead : ManagerOf(q) = m
  BY <1>p, <1>1, Running DEF Passes
<1>6. /\ m \in Managers
      /\ m = Root /\ ~functionTop <=> function = 0
      /\ Index = Position(m) /\ Index \in Nat \ {0} /\ Of(m) = function
      /\ m # Root => function # 0 /\ ~functionTop
      /\ \A n \in Managers : DOMAIN PassVector[n] \subseteq Nat
  BY <1>p, <1>1, InCharge
<1>7. Place' /\ Manager' = Manager
  BY <1>1, <1>4 DEF Place, IsManager, KindOf, Root, Manager
<1>8. /\ Position(m)' = Position(m) + 1
      /\ \A n \in Managers \ {m} : n = Root => Position(n)' = Position(n)
      /\ \A n \in Managers : Of(n)' = Of(n)
  <2>1. CASE function = 0
    BY <2>1, <1>1, <1>6 DEF Position, Of, Root
  <2>2. CASE function # 0
    BY <2>2, <1>1, <1>6 DEF Position, Of, Root
  <2> QED
    BY <2>1, <2>2
\* A result that stays is of the same function, under fewer IDs.
<1>9. ASSUME NEW q \in Pass, q \notin dead, q # p, results[q] # None
      PROVE  /\ results'[q] \in [of : {Of(ManagerOf(q))}, ids : SUBSET ID]
             /\ results'[q].ids = results[q].ids \cap Preserves[k]
  <2>1. results[q] \in [of : {Of(ManagerOf(q))}, ids : SUBSET ID]
    BY <1>4, <1>9 DEF Results
  <2>2. results'[q] = [results[q] EXCEPT !.ids = @ \cap Preserves[k]]
    BY <1>2, <1>9
  <2> QED
    BY <2>1, <2>2
<1>10. p \notin dead => results'[p] = [of |-> function, ids |-> Ids(k)]
  BY <1>2, <1>5
<1>11. \A n : None \notin [of : {Of(n)}, ids : SUBSET ID]
  <2>1. \A n : Of(n) \in 0 .. NumFunctions
    BY <1>4, PassManagerAssumption DEF Place, Of
  <2> QED
    BY <2>1, PassManagerAssumption
<1>12. AvailableAnalysis = [n \in Managers |-> AvailableAnalysis[n]]
  BY <1>4 DEF Listed
<1>13. ASSUME NEW n \in Managers, NEW id \in DOMAIN AvailableAnalysis'[n]
       PROVE  /\ \/ n = m /\ id \in Ids(k) /\ AvailableAnalysis'[n][id] = p
                 \/ /\ id \in DOMAIN AvailableAnalysis[n]
                    /\ AvailableAnalysis'[n][id] = AvailableAnalysis[n][id]
                    /\ n = m => id \notin Ids(k)
                    /\ n \in {m} \cup inherited => id \in Preserves[k]
              /\ n = m /\ id \in Ids(KindOf(AvailableAnalysis'[n][id])) =>
                   AvailableAnalysis'[n][id] \notin dead
  <2>1. AvailableAnalysis' = RunAvailable(AvailableAnalysis, m, inherited, p, dead)
    BY <1>2 DEF RunAvailable
  <2>2. MapOn(Managers, AvailableAnalysis)
    BY <1>12 DEF MapOn
  <2> QED
    BY <2>1, <2>2, <1>5, <1>6, ListedAfter
<1>14. AvailableAnalysis' = [l \in Managers |-> AvailableAnalysis'[l]]
  BY <1>2, <1>12 DEF freePasses, recordAvailableAnalysis, removeNotPreservedAnalysis
<1>15. Listed'
  <2>1. ASSUME NEW n \in Managers, NEW id \in DOMAIN AvailableAnalysis'[n]
        PROVE  AvailableAnalysis'[n][id] \in Passes /\ ManagerOf(AvailableAnalysis'[n][id]) = n
    BY <1>4, <1>5, <1>13 DEF Listed
  <2> QED
    BY <2>1, <1>3, <1>14 DEF Listed, ManagerOf, Passes
<1>16. Available'
  <2>1. ASSUME NEW n \in Managers, NEW id \in DOMAIN AvailableAnalysis'[n]
        PROVE  LET q == AvailableAnalysis'[n][id]
               IN id \in Ids(KindOf(q)) /\ results'[q] # None /\ id \in results'[q].ids
    <3>q. PICK q : q = AvailableAnalysis'[n][id]
      OBVIOUS
    <3>1. CASE n = m /\ id \in Ids(k) /\ q = p
      <4>1. p \notin dead
        BY <3>q, <3>1, <1>5, <1>13
      <4>2. results'[p] \in [of : {Of(m)}, ids : SUBSET ID] /\ results'[p].ids = Ids(k)
        BY <4>1, <1>5, <1>6, <1>10
      <4> QED
        BY <3>q, <3>1, <4>2, <1>5, <1>11
    <3>2. CASE /\ id \in DOMAIN AvailableAnalysis[n] /\ q = AvailableAnalysis[n][id]
               /\ n = m => id \notin Ids(k)
               /\ n \in {m} \cup inherited => id \in Preserves[k]
      <4>1. /\ id \in Ids(KindOf(q)) /\ results[q] # None /\ id \in results[q].ids
            /\ q \in Passes /\ q \in Pass /\ ManagerOf(q) = n
        BY <3>2, <1>4 DEF Listed, Available, Passes
      <4>2. n \in {Root, m}
        BY <4>1, <1>4, <1>p DEF Results
      <4>3. q # p
        BY <4>1, <3>2, <1>5
      <4>4. q \notin dead
        BY <4>1, <3>q, <1>5, <1>13
      <4>5. id \in Preserves[k]
        <5>1. CASE n = m
          BY <3>2, <5>1
        <5>2. CASE n # m
          <6>1. n = Root /\ inherited = InheritedAnalysis(m)
            BY <4>2, <5>2, <1>6, <1>p
          <6>2. activeStack[1] = Root /\ 1 \in DOMAIN activeStack
            BY DEF IInv, Stack
          <6>3. n \in inherited
            BY <5>2, <6>1, <6>2 DEF InheritedAnalysis
          <6> QED
            BY <3>2, <6>3
        <5> QED
          BY <5>1, <5>2
      <4>6. /\ results'[q] \in [of : {Of(ManagerOf(q))}, ids : SUBSET ID]
            /\ results'[q].ids = results[q].ids \cap Preserves[k]
        BY <4>1, <4>3, <4>4, <1>9
      <4> QED
        BY <3>q, <4>1, <4>5, <4>6, <1>11
    <3> QED
      BY <3>q, <3>1, <3>2, <1>13
  <2> QED
    BY <2>1, <1>1, <1>3 DEF Available, Ids, KindOf
<1>17. Results'
  <2>1. ASSUME NEW q \in Pass, NEW n, n = ManagerOf(q), results'[q] # None
        PROVE  /\ results'[q] \in [of : {Of(n)}, ids : SUBSET ID]
               /\ q \in Passes /\ n \in {Root, m}
               /\ \E i \in DOMAIN PassVector[n] :
                    /\ i >= Position(n)'
                    /\ PassVector[n][i] = LastUser[q]
    <3>1. q \notin dead /\ (q # p => results[q] # None)
      BY <2>1, <1>2
    <3>2. CASE q = p
      <4>1. results'[q] \in [of : {Of(n)}, ids : SUBSET ID]
        BY <2>1, <3>1, <3>2, <1>5, <1>6, <1>10
      <4>2. LastUser[p] \in Pass /\ ManagerOf(LastUser[p]) = m /\ p <= LastUser[p] /\ LastUser[p] # p
        BY <3>1, <3>2, <1>4, <1>5 DEF Schedules, LastUsers
      <4>3. PICK i \in DOMAIN PassVector[m] : PassVector[m][i] = LastUser[p]
        BY <4>2, <1>4 DEF Schedules, Vectors
      <4>4. ~(i < Index)
        <5>1. i < Index => PassVector[m][i] < PassVector[m][Index]
          BY <4>3, <1>4, <1>5, <1>6 DEF Schedules, Vectors
        <5>2. p \in Nat /\ LastUser[p] \in Nat
          BY <4>2, <1>4, <1>5, PassNumbers DEF Schedules
        <5> QED
          BY <5>1, <5>2, <4>2, <4>3, <1>5
      <4>5. i # Index /\ i \in Nat
        BY <4>2, <4>3, <1>5, <1>6
      <4>6. i >= Position(m)'
        BY <4>4, <4>5, <1>6, <1>8
      <4> QED
        BY <2>1, <3>2, <4>1, <4>3, <4>6, <1>5
    <3>3. CASE q # p
      <4>1. results'[q] \in [of : {Of(n)}, ids : SUBSET ID]
        BY <2>1, <3>1, <3>3, <1>9
      <4>2. q \in Passes /\ n \in {Root, m} /\ n \in Managers
        BY <2>1, <3>1, <3>3, <1>4, <1>p DEF Results, Schedules, Managed
      <4>3. PICK i \in DOMAIN PassVector[n] :
              i >= Position(n) /\ PassVector[n][i] = LastUser[q]
        BY <2>1, <3>1, <3>3, <1>4 DEF Results
      <4>4. i >= Position(n)'
        <5>1. CASE n = m
          <6>1. i # Index
            BY <4>2, <4>3, <5>1, <3>1, <1>5
          <6>2. i \in Nat /\ i >= Index
            BY <4>3, <5>1, <1>6
          <6> QED
            BY <5>1, <6>1, <6>2, <1>6, <1>8
        <5>2. CASE n # m
          BY <4>2, <4>3, <5>2, <1>8
        <5> QED
          BY <5>1, <5>2
      <4> QED
        BY <4>1, <4>2, <4>3, <4>4
    <3> QED
      BY <3>2, <3>3
  <2>2. results' = [q \in Pass |-> results'[q]]
    BY <1>2
  <2>3. ASSUME NEW q \in Pass', results'[q] # None
        PROVE  /\ results'[q] \in [of : {Of(ManagerOf(q))'}, ids : SUBSET ID]
               /\ q \in Passes' /\ ManagerOf(q)' \in {Root', Manager'}
               /\ \E i \in DOMAIN PassVector'[ManagerOf(q)'] :
                    /\ i >= Position(ManagerOf(q))'
                    /\ PassVector'[ManagerOf(q)'][i] = LastUser'[q]
    <3>1. PICK n : n = ManagerOf(q) /\ n = ManagerOf(q)' /\ n \in Managers
      BY <2>3, <1>3, <1>4 DEF Schedules, Managed
    <3>2. /\ results'[q] \in [of : {Of(n)'}, ids : SUBSET ID]
          /\ q \in Passes /\ n \in {Root, m}
          /\ \E i \in DOMAIN PassVector[n] : i >= Position(n)' /\ PassVector[n][i] = LastUser[q]
      BY <2>1, <2>3, <3>1, <1>3, <1>8
    <3>3. Of(ManagerOf(q))' = Of(n)' /\ Position(ManagerOf(q))' = Position(n)'
      BY <3>1 DEF Of, Position
    <3> QED
      BY <3>1, <3>2, <3>3, <1>1, <1>3, <1>7, <1>p DEF Root
  <2> QED
    BY <2>2, <2>3, <1>3 DEF Results
<1> QED
  BY <1>1, <1>3, <1>7, <1>15, <1>16, <1>17 DEF IInv

------------------------------------------------------------------------------
LEMMA InitOK ==
  ASSUME Init
  PROVE  IInv
<1>1. /\ functionTop \in BOOLEAN /\ phase = "build" /\ calls = <<>> /\ passes = <<>>
      /\ PassVector = [m \in {Root} |-> <<>>] /\ AvailableAnalysis = [m \in {Root} |-> Nothing]
      /\ LastUser = [p \in {} |-> Root] /\ activeStack = <<Root>>
  BY DEF Init
<1>2. Pass = {} /\ Passes = {} /\ Managers = {Root}
  BY <1>1 DEF Pass, Passes, Managers
<1>3. Schedules
  <2>1. passes \in Seq([kind : Kind \cup {FPPassManager}, manager : Nat])
    BY <1>1
  <2>2. LastUser \in [Passes -> Pass]
    BY <1>1, <1>2
  <2>3. PassVector \in [Managers -> Seq(Nat)] /\ DOMAIN PassVector[Root] = {}
    BY <1>1, <1>2
  <2> QED
    BY <1>1, <1>2, <2>1, <2>2, <2>3 DEF Schedules, Managed, Vectors, LastUsers
<1>4. Listed
  BY <1>1, <1>2 DEF Listed, Nothing
<1>5. Stack
  <2>1. calls \in Seq(CallType)
    BY <1>1
  <2> QED
    BY <1>1, <1>2, <2>1 DEF Stack
<1> QED
  BY <1>1, <1>3, <1>4, <1>5 DEF IInv

LEMMA StutterKeeps ==
  ASSUME IInv, UNCHANGED vars
  PROVE  IInv'
<1>1. UNCHANGED <<functionTop, phase, calls, passes, PassVector, LastUser, activeStack, unreachable,
                  AvailableAnalysis, top, function, index, running, results>>
  BY DEF vars, buildVars, runVars
<1>2. /\ Schedules' /\ Pass' = Pass /\ Passes' = Passes /\ Managers' = Managers
      /\ \A p \in Pass : ManagerOf(p)' = ManagerOf(p) /\ KindOf(p)' = KindOf(p)
  BY <1>1, SameSchedule DEF IInv, ManagerOf, KindOf
<1>3. Listed' /\ Stack'
  BY <1>1, <1>2 DEF IInv, Listed, Stack, CallType, ManagerOf, Passes, Root
<1>4. ASSUME phase = "run"
      PROVE  Place' /\ Results' /\ Available'
  <2>1. Place /\ Results /\ Available /\ Listed
    BY <1>4 DEF IInv
  <2>2. Manager' = Manager /\ Index' = Index /\ Current' = Current
    BY <1>1 DEF Manager, Index, Current, Root
  <2>3. Place'
    BY <1>1, <2>1, <2>2 DEF Place, IsManager, KindOf, Root
  <2>4. Results'
    BY <1>1, <1>2, <2>1, <2>2 DEF Results, ManagerOf, Of, Position, Root
  <2>5. Available'
    BY <1>1, <1>2, <2>1 DEF Available, Listed, Ids, KindOf, Passes
  <2> QED
    BY <2>3, <2>4, <2>5
<1> QED
  BY <1>1, <1>2, <1>3, <1>4 DEF IInv

LEMMA NextKeeps ==
  ASSUME IInv, [Next]_vars
  PROVE  IInv'
<1>1. CASE AddPass
  BY <1>1, AddPassKeeps
<1>2. CASE Schedule
  BY <1>2, RequiredIsThereKeeps, ScheduleRequiredKeeps, CheckAgainKeeps, AddModulePassKeeps,
     NewFPPassManagerKeeps, AddFunctionPassKeeps DEF Schedule
<1>3. CASE BeginRun
  BY <1>3, BeginRunKeeps
<1>4. CASE RunStep
  BY <1>4, EnterManagerKeeps, initializeAnalysisImplKeeps, RunPassKeeps, NextFunctionKeeps,
     LeaveManagerKeeps, RunNextFunctionKeeps, EndRunKeeps DEF RunStep
<1>5. CASE UNCHANGED vars
  BY <1>5, StutterKeeps
<1> QED
  BY <1>1, <1>2, <1>3, <1>4, <1>5 DEF Next

LEMMA Invariance == Spec => []IInv
<1>1. Init => IInv
  BY InitOK
<1>2. IInv /\ [Next]_vars => IInv'
  BY NextKeeps
<1> QED
  BY <1>1, <1>2, PTL DEF Spec

\* What Root or the manager in charge lists is ready.
LEMMA ListedAreReady ==
  ASSUME IInv, phase = "run", NEW n \in {Root, Manager}, NEW id \in DOMAIN AvailableAnalysis[n]
  PROVE  IsReady(AvailableAnalysis[n][id], id)
<1>1. PICK q : q = AvailableAnalysis[n][id]
  OBVIOUS
<1>2. n \in Managers
  BY InCharge, PassNumbers DEF IInv, Schedules
<1>3. /\ q \in Passes /\ q \in Pass /\ ManagerOf(q) = n
      /\ results[q] # None /\ id \in results[q].ids
  BY <1>1, <1>2 DEF IInv, Listed, Available, Passes
<1>4. results[q].of = Of(n)
  BY <1>3 DEF IInv, Results
<1>5. KindOf(q) \in ModuleLevel <=> n = Root /\ ~functionTop
  BY <1>3 DEF IInv, Schedules, Managed, Passes
<1> QED
  BY <1>1, <1>3, <1>4, <1>5 DEF IsReady, Of

LEMMA ListedIsReady ==
  ASSUME IInv
  PROVE  NothingStaleIsAvailable
BY ListedAreReady DEF NothingStaleIsAvailable

LEMMA FreedInTime ==
  ASSUME IInv
  PROVE  NothingIsKept
<1>1. phase = "done" => \A p \in Pass : results[p] = None
  BY DEF IInv
<1>2. ASSUME phase = "run", NEW p \in Pass, results[p] # None
      PROVE  results[p].of \in {0, function}
  BY <1>2 DEF IInv, Results, Of
<1> QED
  BY <1>1, <1>2 DEF NothingIsKept

\* What the manager in charge lists as available when a pass begins has a result for
\* the function at hand that nothing has invalidated and that is not freed.
THEOREM NothingStaleIsEverAvailable == Spec => []NothingStaleIsAvailable
  BY Invariance, ListedIsReady, PTL

\* No result outlives the function it is about, nor the run.
THEOREM NothingIsEverKept == Spec => []NothingIsKept
  BY Invariance, FreedInTime, PTL
------------------------------------------------------------------------------
(* What the passes declare.                                                *)

\* The IDs of a pass are its own and those of groups.
LEMMA OwnID ==
  ASSUME NEW j \in Kind, NEW k \in Kind, j \in Ids(k)
  PROVE  j = k
BY PassManagerAssumption DEF Ids

\* What is required is an ID.
LEMMA RequiredIDs ==
  ASSUME NEW k \in Kind
  PROVE  Required(k) \subseteq ID /\ Required(k) \subseteq Requirable
<1>1. Requires[k] \in Seq(ID)
  BY PassManagerAssumption
<1>2. Required(k) \subseteq ID
  BY <1>1 DEF Required
<1> QED
  BY <1>2 DEF Requirable
------------------------------------------------------------------------------
(* What the schedule provides, and what is listed of it.                   *)

\* Every pass is served, and what serves it is used until then.
AllServed ==
  \A p \in Passes : \A id \in Required(KindOf(p)) :
    \E e \in Passes : /\ Serves(p, id, e)
                      /\ (IF ManagerOf(e) = ManagerOf(p) THEN p ELSE ManagerOf(p)) <= LastUser[e]

\* While building, the managers on the stack list what the schedule says.
OnStack == {activeStack[i] : i \in DOMAIN activeStack}
End == Len(passes) + 1

ListedWhileBuilding ==
  \A m \in OnStack :
    /\ \A id \in DOMAIN AvailableAnalysis[m] : Lists(m, End, id, AvailableAnalysis[m][id])
    /\ \A id \in ID : \A e \in Passes :
         Lists(m, End, id, e) => id \in DOMAIN AvailableAnalysis[m] /\ AvailableAnalysis[m][id] = e

\* The next pass of a manager in the run.
At(m, i) == IF i \in DOMAIN PassVector[m] THEN PassVector[m][i] ELSE End
NextOf(m) == At(m, Position(m))

ListedAsScheduled ==
  \A n \in {Root, Manager} : \A id \in Requirable : \A e \in Passes :
    Lists(n, NextOf(n), id, e) /\ NextOf(n) <= LastUser[e] /\ (n # Manager => Keeps(Manager, id)) =>
      id \in DOMAIN AvailableAnalysis[n] /\ AvailableAnalysis[n][id] = e

ListedOnlyAsScheduled ==
  Manager # Root => \A id \in DOMAIN AvailableAnalysis[Manager] :
    Lists(Manager, NextOf(Manager), id, AvailableAnalysis[Manager][id])

ResolvedAsScheduled ==
  /\ AnalysisImpls = [p \in Pass |-> AnalysisImpls[p]]
  /\ \A p \in Passes : \A id \in DOMAIN AnalysisImpls[p] : Serves(p, id, AnalysisImpls[p][id])

\* What runs has been handed what is listed.
RunsWithRequired ==
  running # None => \A id \in Required(KindOf(running)) :
    /\ id \in DOMAIN AnalysisImpls[running]
    /\ \E n \in {Root, Manager} :
         id \in DOMAIN AvailableAnalysis[n] /\ AvailableAnalysis[n][id] = AnalysisImpls[running][id]

Runs == ListedAsScheduled /\ ListedOnlyAsScheduled /\ ResolvedAsScheduled /\ RunsWithRequired

JInv ==
  /\ IInv /\ AllServed
  /\ phase = "build" /\ ~unreachable => ListedWhileBuilding
  /\ phase = "run" /\ WellKept => Runs
  /\ phase # "run" => running = None

\* Passes and managers, by number.
LEMMA PassKinds ==
  ASSUME Managed
  PROVE  /\ \A p \in Passes : KindOf(p) \in Kind /\ p \in Pass /\ p \in Nat
         /\ \A p \in Pass : p \in Nat /\ p # Root /\ p < End /\ p <= Len(passes)
         /\ \A p \in Pass : p \in Passes \/ IsManager(p)
         /\ \A p \in Pass : IsManager(p) => p \in Managers /\ p # Root
         /\ \A p \in Pass : ManagerOf(p) # Root => p \in Passes
<1>1. \A p \in Passes : KindOf(p) \in Kind /\ p \in Pass /\ p \in Nat
  BY PassNumbers DEF Passes, IsManager
<1>2. \A p \in Pass : p \in Nat /\ p # Root /\ p < End /\ p <= Len(passes)
  BY PassNumbers DEF End
<1>3. \A p \in Pass : p \in Passes \/ IsManager(p)
  BY DEF Passes
<1>4. \A p \in Pass : IsManager(p) => p \in Managers /\ p # Root
  BY PassNumbers DEF Managers
<1>5. \A p \in Pass : IsManager(p) => ManagerOf(p) = Root
  BY DEF Managed
<1> QED
  BY <1>1, <1>2, <1>3, <1>4, <1>5 DEF Passes

\* At most one pass is listed under an ID, and serves a pass.
LEMMA ListsOne ==
  ASSUME Managed, NEW m, NEW p, NEW id, NEW e, NEW f, Lists(m, p, id, e), Lists(m, p, id, f)
  PROVE  e = f
<1>1. /\ e \in Pass /\ f \in Pass /\ e \in Nat /\ f \in Nat /\ ~IsManager(e) /\ ~IsManager(f)
      /\ id \in Ids(KindOf(e)) /\ id \in Ids(KindOf(f))
      /\ ManagerOf(e) = m /\ ManagerOf(f) = m /\ e < p /\ f < p
      /\ \A l \in Between(m, e, p) : ~IsManager(l) => id \notin Ids(KindOf(l))
      /\ \A l \in Between(m, f, p) : ~IsManager(l) => id \notin Ids(KindOf(l))
  BY PassKinds DEF Lists, Passes
<1>2. e < f => f \in Between(m, e, p)
  BY <1>1 DEF Between
<1>3. f < e => e \in Between(m, f, p)
  BY <1>1 DEF Between
<1> QED
  BY <1>1, <1>2, <1>3

LEMMA ServesOne ==
  ASSUME Managed, NEW p, NEW id, NEW e, NEW f, Serves(p, id, e), Serves(p, id, f)
  PROVE  e = f
<1>1. \A x, m, b : Lists(m, b, id, x) => x \in Pass
  BY DEF Lists, Passes
<1>2. CASE Lists(ManagerOf(p), p, id, e) /\ Lists(ManagerOf(p), p, id, f)
  BY <1>2, ListsOne
<1>3. CASE ~Lists(ManagerOf(p), p, id, e) /\ ~Lists(ManagerOf(p), p, id, f)
  <2>1. Lists(Root, ManagerOf(p), id, e) /\ Lists(Root, ManagerOf(p), id, f)
    BY <1>3 DEF Serves
  <2> QED
    BY <2>1, ListsOne
<1> QED
  BY <1>1, <1>2, <1>3 DEF Serves

------------------------------------------------------------------------------
(* The schedule grows. *)

\* A pass of kind k is new in manager m.
Grown(k, m) ==
  /\ passes' \in Seq([kind : Kind \cup {FPPassManager}, manager : Nat])
  /\ Pass' = Pass \cup {End}
  /\ \A p \in Pass : passes'[p] = passes[p]
  /\ passes'[End] = [kind |-> k, manager |-> m]

\* What PMDataManager::add does: the new pass, or its manager in Root, is the last to use
\* what it requires, and what used that before; what it does not preserve is listed no more.
Used(k, m) ==
  /\ LastUser'[End] = End
  /\ \A q \in Passes : LastUser'[q] # LastUser[q] =>
       \E n \in {Root, m} : \E id \in Required(k) :
         /\ id \in DOMAIN AvailableAnalysis[n] /\ AvailableAnalysis[n][id] \in {q, LastUser[q]}
         /\ LastUser'[q] = IF n = m THEN End ELSE m
  /\ \A id \in Required(k) : \E n \in {Root, m} :
       /\ id \in DOMAIN AvailableAnalysis[n] /\ (n # m => id \notin DOMAIN AvailableAnalysis[m])
       /\ LastUser'[AvailableAnalysis[n][id]] = IF n = m THEN End ELSE m

ListsNow(k, m) ==
  /\ DOMAIN AvailableAnalysis'[m] = (DOMAIN AvailableAnalysis[m] \cap Preserves[k]) \cup Ids(k)
  /\ \A id \in DOMAIN AvailableAnalysis'[m] :
       AvailableAnalysis'[m][id] = IF id \in Ids(k) THEN End ELSE AvailableAnalysis[m][id]
  /\ m # Root =>
       /\ DOMAIN AvailableAnalysis'[Root] = DOMAIN AvailableAnalysis[Root] \cap Preserves[k]
       /\ \A id \in DOMAIN AvailableAnalysis'[Root] :
            AvailableAnalysis'[Root][id] = AvailableAnalysis[Root][id]
  /\ \A n \in Managers \ {Root, m} : DOMAIN AvailableAnalysis'[n] = {}

\* PMDataManager::add, as a change of schedule and of what is listed.
LEMMA AddsGives ==
  ASSUME Schedules,
         NEW k \in Kind, NEW m \in Managers, NEW avail, NEW inherited,
         avail = [n \in Managers |-> avail[n]],
         \A n \in Managers : \A id \in DOMAIN avail[n] :
           avail[n][id] \in Passes /\ ManagerOf(avail[n][id]) = n,
         \A n \in Managers \ {Root, m} : DOMAIN avail[n] = {},
         avail[Root] = AvailableAnalysis[Root], avail[m] = AvailableAnalysis[m],
         inherited \cup {m} = {Root, m},
         Adds(k, m, passes, PassVector, avail, LastUser, inherited),
         ~unreachable'
  PROVE  Grown(k, m) /\ Used(k, m) /\ ListsNow(k, m)
<1>p. PICK P : P = Len(passes) + 1
  OBVIOUS
<1> DEFINE found == {findAnalysisPass(avail, m, id) : id \in Required(k)}
           same == {q \in found \ {None} : Depth(passes[q].manager) = Depth(m)}
           higher == {q \in found \ {None} : Depth(passes[q].manager) < Depth(m)}
           mine == setLastUser(LastUser, same \cup UsesItself(P), P)
           S == [kind : Kind \cup {FPPassManager}, manager : Nat]
           new == [kind |-> k, manager |-> m]
<1>1. /\ passes' = Append(passes, new)
      /\ LastUser' = IF higher = {} THEN mine ELSE setLastUser(mine, higher, m)
      /\ AvailableAnalysis' =
           [removeNotPreservedAnalysis(avail, m, inherited, k) EXCEPT
              ![m] = [id \in DOMAIN @ \cup Ids(k) |-> IF id \in Ids(k) THEN P ELSE @[id]]]
      /\ None \notin found
  BY <1>p DEF Adds
<1>2. /\ Pass = 1 .. Len(passes) /\ Len(passes) \in Nat
      /\ Managers \subseteq Nat /\ Root \in Managers /\ Root \notin Pass /\ m \in Nat /\ P \in Nat
      /\ \A n \in Managers : n # Root => n \in Pass /\ ManagerOf(n) = Root /\ ~functionTop
      /\ P = End /\ P \notin Pass
  <2>1. /\ Pass = 1 .. Len(passes) /\ Len(passes) \in Nat
        /\ Managers \subseteq Nat /\ Root \in Managers /\ Root \notin Pass
        /\ \A n \in Managers : n # Root => n \in Pass /\ ManagerOf(n) = Root /\ ~functionTop
    BY PassNumbers DEF Schedules
  <2> QED
    BY <1>p, <2>1 DEF End
<1>3. Grown(k, m)
  <2>1. passes \in Seq(S) /\ new \in S
    BY <1>2 DEF Schedules, Managed
  <2>2. /\ passes' \in Seq(S) /\ Pass' = 1 .. P
        /\ passes'[P] = new /\ \A p \in Pass : passes'[p] = passes[p]
    <3> HIDE DEF S, new
    <3> QED
      BY <1>p, <1>1, <1>2, <2>1 DEF Pass
  <2>3. Pass' = Pass \cup {End}
    BY <1>p, <1>2, <2>2
  <2> QED
    BY <1>2, <2>2, <2>3 DEF Grown
<1>4. ASSUME NEW id \in Required(k)
      PROVE  \E n \in {Root, m} :
               /\ id \in DOMAIN avail[n] /\ findAnalysisPass(avail, m, id) = avail[n][id]
               /\ n # m => id \notin DOMAIN avail[m]
  <2>1. DOMAIN avail = Managers /\ findAnalysisPass(avail, m, id) # None
    BY <1>1
  <2>2. CASE id \in DOMAIN avail[m]
    BY <2>2 DEF findAnalysisPass
  <2>3. CASE id \notin DOMAIN avail[m]
    <3>1. PICK n \in {Root, m} :
            id \in DOMAIN avail[n] /\ findAnalysisPass(avail, m, id) = avail[n][id]
      BY <2>1, <1>2, FindsInRootOrHere
    <3> QED
      BY <2>3, <3>1
  <2> QED
    BY <2>2, <2>3
<1>5. /\ \A n \in {Root, m} : \A id \in DOMAIN avail[n] :
           avail[n][id] \in Passes /\ passes[avail[n][id]].manager = n /\ avail[n][id] # None
      /\ Depth(Root) < Depth(m) <=> m # Root
      /\ Depth(Root) = Depth(m) <=> m = Root
  <2>1. \A q \in Passes : q # None
    BY PassNumbers DEF Schedules, Passes
  <2>2. \A n \in {Root, m} : n \in Managers
    BY <1>2
  <2> QED
    BY <2>1, <2>2 DEF Depth, ManagerOf
<1>6. /\ \A q \in same : \E id \in Required(k) : id \in DOMAIN avail[m] /\ avail[m][id] = q
      /\ \A q \in higher : /\ m # Root
                           /\ \E id \in Required(k) : id \in DOMAIN avail[Root] /\ avail[Root][id] = q
  <2>1. ASSUME NEW q \in found \ {None}
        PROVE  \E n \in {Root, m} : \E id \in Required(k) :
                 id \in DOMAIN avail[n] /\ q = avail[n][id] /\ passes[q].manager = n
    <3>1. PICK id \in Required(k) : q = findAnalysisPass(avail, m, id)
      OBVIOUS
    <3> QED
      BY <3>1, <1>4, <1>5
  <2>2. ASSUME NEW q \in same
        PROVE  \E id \in Required(k) : id \in DOMAIN avail[m] /\ avail[m][id] = q
    <3>1. q \in found \ {None} /\ Depth(passes[q].manager) = Depth(m)
      OBVIOUS
    <3> HIDE DEF same, found
    <3> QED
      BY <2>1, <3>1, <1>5
  <2>3. ASSUME NEW q \in higher
        PROVE  /\ m # Root
               /\ \E id \in Required(k) : id \in DOMAIN avail[Root] /\ avail[Root][id] = q
    <3>1. q \in found \ {None} /\ Depth(passes[q].manager) < Depth(m)
      OBVIOUS
    <3>2. ~(Depth(m) < Depth(m))
      BY DEF Depth
    <3> HIDE DEF higher, found
    <3> QED
      BY <2>1, <3>1, <3>2, <1>5
  <2> QED
    BY <2>2, <2>3
<1>7. \A id \in Required(k) : \E n \in {Root, m} :
        /\ id \in DOMAIN avail[n] /\ (n # m => id \notin DOMAIN avail[m])
        /\ n = m => avail[n][id] \in same
        /\ n # m => avail[n][id] \in higher
  <2> SUFFICES ASSUME NEW id \in Required(k)
               PROVE  \E n \in {Root, m} :
                        /\ id \in DOMAIN avail[n] /\ (n # m => id \notin DOMAIN avail[m])
                        /\ n = m => avail[n][id] \in same
                        /\ n # m => avail[n][id] \in higher
    OBVIOUS
  <2>1. PICK n \in {Root, m} :
               /\ id \in DOMAIN avail[n] /\ findAnalysisPass(avail, m, id) = avail[n][id]
               /\ n # m => id \notin DOMAIN avail[m]
    BY <1>4
  <2>2. avail[n][id] \in found \ {None}
    BY <1>5, <2>1
  <2> QED
    BY <1>5, <2>1, <2>2
<1>8. /\ same \subseteq Passes /\ higher \subseteq Passes
      /\ same \cap higher = {}
      /\ P \notin same /\ P \notin higher /\ P \notin Passes
  <2>1. \A q \in same : Depth(passes[q].manager) = Depth(m)
    OBVIOUS
  <2>2. \A q \in higher : Depth(passes[q].manager) < Depth(m)
    OBVIOUS
  <2>3. Depth(m) \in Nat
    BY DEF Depth
  <2>4. same \subseteq Passes /\ higher \subseteq Passes
    BY <1>5, <1>6
  <2>5. same \cap higher = {}
    <3> HIDE DEF same, higher
    <3> QED
      BY <2>1, <2>2, <2>3
  <2> QED
    BY <1>2, <2>4, <2>5 DEF Passes
<1> HIDE DEF same, higher, found
<1>9. /\ DOMAIN mine = Passes \cup {P} /\ mine[P] = P
      /\ \A q \in Passes : mine[q] = IF q \in same \/ LastUser[q] \in same THEN P ELSE LastUser[q]
  <2>1. LastUser \in [Passes -> Pass] /\ UsesItself(P) = {P}
    BY DEF Schedules, LastUsers, UsesItself
  <2>2. mine = [q \in Passes \cup {P} |->
                  IF q \in same \cup {P} \/ LastUser[q] \in (same \cup {P}) \ {P} THEN P ELSE LastUser[q]]
    <3>1. DOMAIN LastUser \cup (same \cup {P}) = Passes \cup {P}
      BY <2>1, <1>8
    <3>2. mine = setLastUser(LastUser, same \cup {P}, P)
      BY <2>1
    <3> HIDE DEF mine
    <3> QED
      BY <3>1, <3>2 DEF setLastUser
  <2> HIDE DEF mine
  <2> QED
    BY <2>1, <2>2, <1>8
<1> HIDE DEF mine
<1>10. /\ LastUser'[P] = P
       /\ \A q \in Passes : LastUser'[q] = IF q \in higher \/ mine[q] \in higher \ {m} THEN m
                                           ELSE mine[q]
  <2>1. CASE higher = {}
    BY <2>1, <1>1, <1>9
  <2>2. CASE higher # {}
    <3>1. LastUser' = [q \in Passes \cup {P} |-> IF q \in higher \/ mine[q] \in higher \ {m} THEN m
                                                 ELSE mine[q]]
      <4>1. LastUser' = setLastUser(mine, higher, m)
        BY <2>2, <1>1
      <4>2. DOMAIN mine \cup higher = Passes \cup {P}
        BY <1>8, <1>9
      <4> QED
        BY <4>1, <4>2 DEF setLastUser
    <3> QED
      BY <3>1, <1>8, <1>9
  <2> QED
    BY <2>1, <2>2
<1>11. Used(k, m)
  <2>1. ASSUME NEW q \in Passes, LastUser'[q] # LastUser[q]
        PROVE  \E n \in {Root, m} : \E id \in Required(k) :
                 /\ id \in DOMAIN AvailableAnalysis[n] /\ AvailableAnalysis[n][id] \in {q, LastUser[q]}
                 /\ LastUser'[q] = IF n = m THEN End ELSE m
    <3>1. CASE q \in higher \/ mine[q] \in higher \ {m}
      <4>1. LastUser'[q] = m
        BY <3>1, <1>10
      <4>2. PICK x \in {q, LastUser[q]} : x \in higher
        BY <3>1, <1>8, <1>9
      <4>3. m # Root /\ \E id \in Required(k) : id \in DOMAIN avail[Root] /\ avail[Root][id] = x
        BY <4>2, <1>6
      <4> QED
        BY <4>1, <4>2, <4>3
    <3>2. CASE ~(q \in higher \/ mine[q] \in higher \ {m})
      <4>1. LastUser'[q] = mine[q]
        BY <3>2, <1>10
      <4>2. PICK x \in {q, LastUser[q]} : x \in same
        BY <4>1, <2>1, <1>9
      <4>3. mine[q] = P
        BY <4>2, <1>9
      <4>4. \E id \in Required(k) : id \in DOMAIN avail[m] /\ avail[m][id] = x
        BY <4>2, <1>6
      <4> QED
        BY <4>1, <4>2, <4>3, <4>4, <1>2
    <3> QED
      BY <3>1, <3>2
  <2>2. ASSUME NEW id \in Required(k)
        PROVE  \E n \in {Root, m} :
                 /\ id \in DOMAIN AvailableAnalysis[n]
                 /\ (n # m => id \notin DOMAIN AvailableAnalysis[m])
                 /\ LastUser'[AvailableAnalysis[n][id]] = IF n = m THEN End ELSE m
    <3>1. PICK n \in {Root, m} :
            /\ id \in DOMAIN avail[n] /\ (n # m => id \notin DOMAIN avail[m])
            /\ n = m => avail[n][id] \in same
            /\ n # m => avail[n][id] \in higher
      BY <1>7
    <3>2. CASE n = m
      <4>1. PICK x \in Passes : x = avail[m][id] /\ x \in same /\ x \notin higher
        BY <3>1, <3>2, <1>8
      <4>2. LastUser'[x] = P
        BY <4>1, <1>8, <1>9, <1>10
      <4> QED
        BY <3>1, <3>2, <4>1, <4>2, <1>2
    <3>3. CASE n # m
      <4>1. PICK x \in Passes : x = avail[Root][id] /\ x \in higher /\ n = Root
        BY <3>1, <3>3, <1>8
      <4>2. LastUser'[x] = m
        BY <4>1, <1>10
      <4> QED
        BY <3>1, <3>3, <4>1, <4>2
    <3> QED
      BY <3>2, <3>3
  <2> QED
    BY <2>1, <2>2, <1>2, <1>10 DEF Used
<1>12. ListsNow(k, m)
  <2> DEFINE left == removeNotPreservedAnalysis(avail, m, inherited, k)
  <2>1. /\ left = [n \in Managers |-> left[n]]
        /\ \A n \in {Root, m} : left[n] = Keeping(avail[n], Preserves[k])
        /\ \A n \in Managers \ {Root, m} : left[n] = avail[n]
    <3>1. DOMAIN avail = Managers /\ {m} \cup inherited = {Root, m}
      OBVIOUS
    <3>2. left = [n \in Managers |-> IF n \in {Root, m} THEN Keeping(avail[n], Preserves[k])
                                     ELSE avail[n]]
      BY <3>1 DEF removeNotPreservedAnalysis
    <3> QED
      BY <3>2, <1>2
  <2>2. AvailableAnalysis' =
           [left EXCEPT ![m] = [id \in DOMAIN @ \cup Ids(k) |-> IF id \in Ids(k) THEN P ELSE @[id]]]
    BY <1>1
  <2> HIDE DEF left
  <2>3. /\ \A n \in Managers \ {m} : AvailableAnalysis'[n] = left[n]
        /\ AvailableAnalysis'[m] = [id \in DOMAIN left[m] \cup Ids(k) |->
                                      IF id \in Ids(k) THEN P ELSE left[m][id]]
    BY <2>1, <2>2
  <2>4. /\ DOMAIN left[m] = DOMAIN AvailableAnalysis[m] \cap Preserves[k]
        /\ \A id \in DOMAIN left[m] : left[m][id] = AvailableAnalysis[m][id]
    BY <2>1 DEF Keeping
  <2>5. /\ DOMAIN left[Root] = DOMAIN AvailableAnalysis[Root] \cap Preserves[k]
        /\ \A id \in DOMAIN left[Root] : left[Root][id] = AvailableAnalysis[Root][id]
    BY <2>1 DEF Keeping
  <2>6. /\ DOMAIN AvailableAnalysis'[m] = (DOMAIN AvailableAnalysis[m] \cap Preserves[k]) \cup Ids(k)
        /\ \A id \in DOMAIN AvailableAnalysis'[m] :
             AvailableAnalysis'[m][id] = IF id \in Ids(k) THEN P ELSE AvailableAnalysis[m][id]
    BY <2>3, <2>4
  <2>7. \A n \in Managers \ {Root, m} : DOMAIN AvailableAnalysis'[n] = {}
    BY <2>1, <2>3
  <2>8. m # Root => AvailableAnalysis'[Root] = left[Root]
    BY <2>3, <1>2
  <2> QED
    BY <2>5, <2>6, <2>7, <2>8, <1>2 DEF ListsNow
<1> QED
  BY <1>3, <1>11, <1>12

\* What was there stays as it is.
LEMMA GrownPasses ==
  ASSUME Managed, NEW k \in Kind \cup {FPPassManager}, NEW m \in Managers, Grown(k, m),
         NEW P, P = End
  PROVE  /\ Pass' = Pass \cup {P} /\ P \notin Pass /\ P \in Nat /\ P # Root /\ P \notin Managers
         /\ End' = P + 1
         /\ \A p \in Pass : p \in Nat /\ p < P
         /\ \A p \in Pass : /\ KindOf(p)' = KindOf(p) /\ ManagerOf(p)' = ManagerOf(p)
                            /\ IsManager(p)' <=> IsManager(p)
         /\ KindOf(P)' = k /\ ManagerOf(P)' = m /\ (IsManager(P)' <=> k = FPPassManager)
         /\ k \in Kind => Passes' = Passes \cup {P} /\ Managers' = Managers
         /\ k = FPPassManager => Passes' = Passes /\ Managers' = Managers \cup {P}
<1>1. /\ Pass = 1 .. Len(passes) /\ Len(passes) \in Nat /\ Managers \subseteq Nat
      /\ Root \notin Pass /\ \A n \in Managers : n # Root => n \in Pass
  BY PassNumbers
<1>2. /\ Pass' = Pass \cup {P} /\ P \notin Pass /\ P \in Nat /\ P # Root /\ P \notin Managers
      /\ \A p \in Pass : p \in Nat /\ p < P
  BY <1>1 DEF End, Grown, Root
<1>3. End' = P + 1
  <2> DEFINE S == [kind : Kind \cup {FPPassManager}, manager : Nat]
  <2>1. passes' \in Seq(S) /\ DOMAIN passes' = 1 .. P
    BY <1>1, <1>2 DEF Grown, End, Pass
  <2>2. Len(passes') = P
    <3> HIDE DEF S
    <3>1. DOMAIN passes' = 1 .. Len(passes') /\ Len(passes') \in Nat
      BY <2>1
    <3> QED
      BY <2>1, <3>1, <1>2
  <2> QED
    BY <2>2 DEF End
<1>4. \A p \in Pass : KindOf(p)' = KindOf(p) /\ ManagerOf(p)' = ManagerOf(p)
  BY DEF Grown, KindOf, ManagerOf
<1>5. KindOf(P)' = k /\ ManagerOf(P)' = m
  BY DEF Grown, KindOf, ManagerOf
<1>6. /\ \A p \in Pass : IsManager(p)' <=> IsManager(p)
      /\ IsManager(P)' <=> k = FPPassManager
  BY <1>4, <1>5 DEF IsManager
<1>7. FPPassManager \notin Kind
  BY PassManagerAssumption DEF ID
<1>8. k \in Kind => Passes' = Passes \cup {P} /\ Managers' = Managers
  BY <1>2, <1>6, <1>7 DEF Passes, Managers, Root
<1>9. k = FPPassManager => Passes' = Passes /\ Managers' = Managers \cup {P}
  BY <1>2, <1>6, <1>7 DEF Passes, Managers, Root
<1> QED
  BY <1>2, <1>3, <1>4, <1>5, <1>6, <1>8, <1>9

\* A manager has become shorter of what it keeps by what its new pass does not preserve.
LEMMA GrownKeeps ==
  ASSUME Managed, NEW k \in Kind \cup {FPPassManager}, NEW m \in Managers, Grown(k, m),
         NEW P, P = End, NEW id
  PROVE  /\ \A l \in Pass \ {m} : Keeps(l, id)' <=> Keeps(l, id)
         /\ m \in Pass => (Keeps(m, id)' <=> Keeps(m, id) /\ id \in Preserves[k])
         /\ k \in Kind => (Keeps(P, id)' <=> id \in Preserves[k])
         /\ k = FPPassManager => Keeps(P, id)'
<1>1. /\ Pass' = Pass \cup {P} /\ P \notin Pass /\ P \notin Managers
      /\ \A p \in Pass : /\ KindOf(p)' = KindOf(p) /\ ManagerOf(p)' = ManagerOf(p)
                         /\ IsManager(p)' <=> IsManager(p)
      /\ KindOf(P)' = k /\ ManagerOf(P)' = m /\ (IsManager(P)' <=> k = FPPassManager)
  BY GrownPasses
<1>2. \A p \in Pass : ManagerOf(p) \in Managers
  BY DEF Managed
<1>3. FPPassManager \notin Kind
  BY PassManagerAssumption DEF ID
<1>4. ASSUME NEW l \in Pass \ {m}
      PROVE  Keeps(l, id)' <=> Keeps(l, id)
  <2>1. CASE IsManager(l)
    <3>1. IsManager(l)'
      BY <1>1, <2>1
    <3>2. (\A x \in Pass' : ManagerOf(x)' = l => id \in Preserves[KindOf(x)'])
          <=> (\A x \in Pass : ManagerOf(x) = l => id \in Preserves[KindOf(x)])
      BY <1>1, <1>4
    <3> QED
      BY <2>1, <3>1, <3>2 DEF Keeps
  <2>2. CASE ~IsManager(l)
    BY <1>1, <2>2 DEF Keeps
  <2> QED
    BY <2>1, <2>2
<1>5. ASSUME m \in Pass
      PROVE  Keeps(m, id)' <=> Keeps(m, id) /\ id \in Preserves[k]
  <2>1. IsManager(m) /\ IsManager(m)'
    BY <1>1, <1>5, PassNumbers DEF Managers
  <2>2. (\A x \in Pass' : ManagerOf(x)' = m => id \in Preserves[KindOf(x)'])
        <=> (\A x \in Pass : ManagerOf(x) = m => id \in Preserves[KindOf(x)]) /\ id \in Preserves[k]
    BY <1>1
  <2> QED
    BY <2>1, <2>2 DEF Keeps
<1>6. k \in Kind => (Keeps(P, id)' <=> id \in Preserves[k])
  BY <1>1, <1>3 DEF Keeps
<1>7. ASSUME k = FPPassManager
      PROVE  Keeps(P, id)'
  <2>1. IsManager(P)'
    BY <1>1, <1>7
  <2>2. \A x \in Pass' : ManagerOf(x)' # P
    <3>1. \A x \in Pass : ManagerOf(x)' # P
      BY <1>1, <1>2
    <3> QED
      BY <1>1, <3>1
  <2> QED
    BY <2>1, <2>2 DEF Keeps
<1> QED
  BY <1>4, <1>5, <1>6, <1>7

\* What is listed before a pass that is there does not change; after the new pass
\* that one is listed, and what it preserves.
LEMMA GrownLists ==
  ASSUME Managed, NEW k \in Kind \cup {FPPassManager}, NEW m \in Managers, Grown(k, m),
         m # Root => \A p \in Pass : ManagerOf(p) = Root => p <= m,
         NEW P, P = End, NEW id, NEW e, NEW n \in Managers
  PROVE  /\ \A b \in Pass : ManagerOf(b) = n => (Lists(n, b, id, e)' <=> Lists(n, b, id, e))
         /\ n = m => (Lists(n, P, id, e)' <=> Lists(n, P, id, e))
         /\ n = m /\ k \in Kind =>
              (Lists(n, P + 1, id, e)' <=>
                 \/ e = P /\ id \in Ids(k)
                 \/ Lists(n, P, id, e) /\ id \in Preserves[k] /\ id \notin Ids(k))
         /\ n = Root /\ m # Root /\ k \in Kind =>
              (Lists(n, P + 1, id, e)' <=> Lists(n, P, id, e) /\ id \in Preserves[k])
         /\ n = Root /\ m = Root /\ k = FPPassManager =>
              (Lists(n, P + 1, id, e)' <=> Lists(n, P, id, e))
<1>1. /\ Pass' = Pass \cup {P} /\ P \notin Pass /\ P \notin Managers /\ P \in Nat /\ P # Root
      /\ \A p \in Pass : p \in Nat /\ p < P
      /\ \A p \in Pass : /\ KindOf(p)' = KindOf(p) /\ ManagerOf(p)' = ManagerOf(p)
                         /\ IsManager(p)' <=> IsManager(p)
      /\ KindOf(P)' = k /\ ManagerOf(P)' = m /\ (IsManager(P)' <=> k = FPPassManager)
      /\ k \in Kind => Passes' = Passes \cup {P}
      /\ k = FPPassManager => Passes' = Passes
  BY GrownPasses
<1>2. /\ \A l \in Pass \ {m} : Keeps(l, id)' <=> Keeps(l, id)
      /\ m \in Pass => (Keeps(m, id)' <=> Keeps(m, id) /\ id \in Preserves[k])
      /\ k \in Kind => (Keeps(P, id)' <=> id \in Preserves[k])
      /\ k = FPPassManager => Keeps(P, id)'
  BY GrownKeeps
<1>3. /\ m # Root => m \in Pass /\ ManagerOf(m) = Root /\ IsManager(m) /\ m \in Nat
      /\ Root \notin Pass
      /\ \A p \in Pass : IsManager(p) => ManagerOf(p) = Root
      /\ FPPassManager \notin Kind
  BY PassNumbers, PassManagerAssumption DEF Managers, Managed, ID
<1>4. /\ \A b : Lists(n, b, id, e) <=>
           /\ e \in Passes /\ ManagerOf(e) = n /\ e < b /\ id \in Ids(KindOf(e))
           /\ \A l \in Pass : ManagerOf(l) = n /\ e < l /\ l < b =>
                Keeps(l, id) /\ (~IsManager(l) => id \notin Ids(KindOf(l)))
      /\ \A b : Lists(n, b, id, e)' <=>
           /\ e \in Passes' /\ ManagerOf(e)' = n /\ e < b /\ id \in Ids(KindOf(e)')
           /\ \A l \in Pass' : ManagerOf(l)' = n /\ e < l /\ l < b =>
                Keeps(l, id)' /\ (~IsManager(l)' => id \notin Ids(KindOf(l)'))
  BY DEF Lists, Between, Ids
<1>5. \A p \in Passes : p \in Pass
  BY DEF Passes
<1>6. ASSUME NEW b \in Nat, b <= P, m # Root /\ n = Root => b <= m
      PROVE  Lists(n, b, id, e)' <=> Lists(n, b, id, e)
  <2>1. \A l \in Pass : ManagerOf(l) = n /\ l < b => l # m
    BY <1>1, <1>3, <1>6
  <2>2. \A l \in Pass' : l < b => l \in Pass
    BY <1>1, <1>6
  <2>3. e \in Passes' /\ e < b <=> e \in Passes /\ e < b
    BY <1>1, <1>6
  <2>4. ASSUME e \in Passes
        PROVE  Lists(n, b, id, e)' <=> Lists(n, b, id, e)
    <3>1. /\ e \in Pass /\ ManagerOf(e)' = ManagerOf(e) /\ KindOf(e)' = KindOf(e)
      BY <2>4, <1>1, <1>5
    <3>2. ASSUME NEW l \in Pass, ManagerOf(l) = n, l < b
          PROVE  /\ ManagerOf(l)' = n /\ l \in Pass' /\ KindOf(l)' = KindOf(l)
                 /\ (Keeps(l, id)' <=> Keeps(l, id)) /\ (IsManager(l)' <=> IsManager(l))
      BY <3>2, <1>1, <1>2, <2>1
    <3>3. \A l \in Pass' : ManagerOf(l)' = n /\ l < b => l \in Pass /\ ManagerOf(l) = n
      BY <1>1, <2>2
    <3> QED
      BY <1>4, <2>3, <2>4, <3>1, <3>2, <3>3
  <2> QED
    BY <1>4, <2>3, <2>4
<1>7. \A b \in Pass : ManagerOf(b) = n => (Lists(n, b, id, e)' <=> Lists(n, b, id, e))
  BY <1>1, <1>6
<1>8. n = m => (Lists(n, P, id, e)' <=> Lists(n, P, id, e))
  BY <1>1, <1>6
<1>9. ASSUME n = m, k \in Kind
      PROVE  Lists(n, P + 1, id, e)' <=>
                 \/ e = P /\ id \in Ids(k)
                 \/ Lists(n, P, id, e) /\ id \in Preserves[k] /\ id \notin Ids(k)
  <2>1. CASE e = P
    <3>1. /\ e \in Passes' /\ ManagerOf(e)' = n /\ e < P + 1 /\ KindOf(e)' = k
          /\ \A l \in Pass' : ~(e < l)
      BY <2>1, <1>1, <1>9
    <3>2. e \notin Passes
      BY <2>1, <1>1, <1>5
    <3> QED
      BY <3>1, <3>2, <2>1, <1>4
  <2>2. CASE e # P /\ e \notin Passes
    BY <2>2, <1>1, <1>4, <1>9
  <2>3. CASE e # P /\ e \in Passes
    <3>1. /\ e \in Pass /\ e < P /\ e < P + 1
          /\ \A l \in Pass' : l < P + 1 /\ (l < P <=> l \in Pass)
      BY <2>3, <1>1, <1>5
    <3>2. Lists(n, P + 1, id, e)' <=>
            Lists(n, P, id, e)' /\ Keeps(P, id)' /\ (~IsManager(P)' => id \notin Ids(KindOf(P)'))
      BY <3>1, <1>1, <1>4, <1>9
    <3> QED
      BY <3>2, <2>3, <1>1, <1>2, <1>3, <1>8, <1>9
  <2> QED
    BY <2>1, <2>2, <2>3
<1>10. ASSUME n = Root, m # Root, k \in Kind
       PROVE  Lists(n, P + 1, id, e)' <=> Lists(n, P, id, e) /\ id \in Preserves[k]
  <2>1. Lists(n, m, id, e)' <=> Lists(n, m, id, e)
    BY <1>3, <1>7, <1>10
  <2>2. /\ \A l \in Pass : ManagerOf(l) = n => l <= m
        /\ \A l \in Pass' : ManagerOf(l)' = n => l <= m /\ l \in Pass
    BY <1>1, <1>10
  <2>3. CASE e \in Passes /\ ManagerOf(e) = n
    <3>1. /\ e \in Passes' /\ ManagerOf(e)' = n
          /\ e \in Nat /\ e < m /\ e < P /\ e < P + 1 /\ m < P /\ m < P + 1
      BY <2>2, <2>3, <1>1, <1>3, <1>5, <1>10 DEF Passes
    <3>2. /\ m \in Pass /\ ManagerOf(m) = n /\ m \in Pass' /\ ManagerOf(m)' = n
          /\ IsManager(m) /\ IsManager(m)' /\ m \in Nat
      BY <1>1, <1>3, <1>10
    <3>3. Lists(n, P, id, e) <=> Lists(n, m, id, e) /\ Keeps(m, id)
      <4>1. \A l \in Pass : ManagerOf(l) = n /\ l < P <=> ManagerOf(l) = n /\ (l < m \/ l = m)
        BY <2>2, <1>1, <3>1, <3>2
      <4> QED
        BY <1>4, <3>1, <3>2, <4>1
    <3>4. Lists(n, P + 1, id, e)' <=> Lists(n, m, id, e)' /\ Keeps(m, id)'
      <4>1. \A l \in Pass' : ManagerOf(l)' = n /\ l < P + 1 <=> ManagerOf(l)' = n /\ (l < m \/ l = m)
        BY <2>2, <1>1, <3>1, <3>2
      <4> QED
        BY <1>4, <3>1, <3>2, <4>1
    <3> QED
      BY <2>1, <3>2, <3>3, <3>4, <1>2
  <2>4. CASE ~(e \in Passes /\ ManagerOf(e) = n)
    <3>1. ~(e \in Passes' /\ ManagerOf(e)' = n)
      BY <2>4, <1>1, <1>5, <1>10
    <3> QED
      BY <2>4, <3>1, <1>4
  <2> QED
    BY <2>3, <2>4
<1>11. ASSUME n = Root, m = Root, k = FPPassManager
       PROVE  Lists(n, P + 1, id, e)' <=> Lists(n, P, id, e)
  <2>1. CASE e \notin Passes
    BY <2>1, <1>1, <1>4, <1>11
  <2>2. CASE e \in Passes
    <3>1. /\ e \in Pass /\ e \in Passes' /\ e < P /\ e < P + 1
          /\ \A l \in Pass' : l < P + 1 /\ (l < P <=> l \in Pass)
      BY <2>2, <1>1, <1>5, <1>11
    <3>2. Lists(n, P + 1, id, e)' <=>
            Lists(n, P, id, e)' /\ Keeps(P, id)' /\ (~IsManager(P)' => id \notin Ids(KindOf(P)'))
      BY <3>1, <1>1, <1>4, <1>11
    <3> QED
      BY <3>2, <2>2, <1>1, <1>2, <1>8, <1>11
  <2> QED
    BY <2>1, <2>2
<1> QED
  BY <1>7, <1>8, <1>9, <1>10, <1>11

\* Pass k is added to manager m, which is on the stack and lists what the schedule says.
Adding(k, m) ==
  /\ Grown(k, m) /\ Used(k, m) /\ ListsNow(k, m)
  /\ {Root, m} \subseteq OnStack
  /\ m # Root => \A p \in Pass : ManagerOf(p) = Root => p <= m

\* Whose last user changes is used by the new pass, or by its manager.
LEMMA UsedInAdding ==
  ASSUME Schedules, ListedWhileBuilding, NEW k \in Kind, NEW m \in Managers,
         Adding(k, m), NEW q \in Passes, LastUser'[q] # LastUser[q]
  PROVE  /\ LastUser'[q] = IF ManagerOf(q) = m THEN End ELSE m
         /\ ManagerOf(q) \in {Root, m}
<1>1. PICK n \in {Root, m}, id \in Required(k) :
        /\ id \in DOMAIN AvailableAnalysis[n] /\ AvailableAnalysis[n][id] \in {q, LastUser[q]}
        /\ LastUser'[q] = IF n = m THEN End ELSE m
  BY DEF Adding, Used
<1>2. Lists(n, End, id, AvailableAnalysis[n][id])
  BY <1>1 DEF Adding, ListedWhileBuilding
<1>3. ManagerOf(q) = ManagerOf(LastUser[q])
  BY DEF Schedules, LastUsers
<1>4. n = ManagerOf(q)
  BY <1>1, <1>2, <1>3 DEF Lists
<1> QED
  BY <1>1, <1>4

\* Serves, with the manager of p given.
LEMMA ServesNow ==
  ASSUME NEW p, NEW n, NEW id, NEW e
  PROVE  /\ ManagerOf(p) = n =>
              (Serves(p, id, e) <=>
                 \/ Lists(n, p, id, e)
                 \/ n # Root /\ (\A x \in Pass : ~Lists(n, p, id, x)) /\ Lists(Root, n, id, e))
         /\ ManagerOf(p)' = n =>
              (Serves(p, id, e)' <=>
                 \/ Lists(n, p, id, e)'
                 \/ n # Root /\ (\A x \in Pass' : ~Lists(n, p, id, x)') /\ Lists(Root, n, id, e)')
<1>1. ManagerOf(p) = n =>
        (Serves(p, id, e) <=>
           \/ Lists(n, p, id, e)
           \/ n # Root /\ (\A x \in Pass : ~Lists(n, p, id, x)) /\ Lists(Root, n, id, e))
  BY DEF Serves
<1>2. ASSUME ManagerOf(p)' = n
      PROVE  Serves(p, id, e)' <=>
               \/ Lists(n, p, id, e)'
               \/ n # Root /\ (\A x \in Pass' : ~Lists(n, p, id, x)') /\ Lists(Root, n, id, e)'
  <2>1. \A x : Lists(ManagerOf(p), p, id, x)' <=> Lists(n, p, id, x)'
    BY <1>2 DEF Lists, Between
  <2>2. Lists(Root, ManagerOf(p), id, e)' <=> Lists(Root, n, id, e)'
    BY <1>2 DEF Lists, Between
  <2> QED
    BY <1>2, <2>1, <2>2 DEF Serves, Root
<1> QED
  BY <1>1, <1>2

\* A pass that has been served still is.
LEMMA GrownServes ==
  ASSUME Managed, NEW k \in Kind \cup {FPPassManager}, NEW m \in Managers, Grown(k, m),
         m # Root => \A p \in Pass : ManagerOf(p) = Root => p <= m,
         NEW p \in Pass, NEW id, NEW e
  PROVE  Serves(p, id, e)' <=> Serves(p, id, e)
<1>p. PICK P : P = End
  OBVIOUS
<1>n. PICK n \in Managers : n = ManagerOf(p)
  BY DEF Managed
<1>1. /\ Pass' = Pass \cup {P} /\ ManagerOf(p)' = n /\ P \in Nat
      /\ \A q \in Pass : q \in Nat /\ q < P
      /\ n # Root => n \in Pass /\ ManagerOf(n) = Root
      /\ Root \in Managers
  BY <1>p, <1>n, GrownPasses, PassNumbers
<1>2. \A x : Lists(n, p, id, x)' <=> Lists(n, p, id, x)
  BY <1>p, <1>n, GrownLists
<1>3. n # Root => (Lists(Root, n, id, e)' <=> Lists(Root, n, id, e))
  BY <1>p, <1>1, GrownLists
<1>4. (\A x \in Pass' : ~Lists(n, p, id, x)') <=> (\A x \in Pass : ~Lists(n, p, id, x))
  <2>1. ~Lists(n, p, id, P)
    <3>1. ~(P < p)
      BY <1>1
    <3> QED
      BY <3>1 DEF Lists
  <2> QED
    BY <1>1, <1>2, <2>1
<1> QED
  BY <1>n, <1>1, <1>2, <1>3, <1>4, ServesNow

\* What lists the new pass what it requires lists it as the schedule says.
LEMMA AddingServes ==
  ASSUME Schedules, ListedWhileBuilding, NEW k \in Kind, NEW m \in Managers, Adding(k, m),
         NEW P, P = End, NEW id \in Required(k)
  PROVE  \E e \in Passes : /\ Serves(P, id, e)'
                           /\ (IF ManagerOf(e) = m THEN P ELSE m) <= LastUser'[e]
<1>1. /\ Pass' = Pass \cup {P} /\ P \notin Pass /\ P \in Nat
      /\ \A p \in Pass : p \in Nat /\ p < P
      /\ KindOf(P)' = k /\ ManagerOf(P)' = m
      /\ Passes' = Passes \cup {P}
  BY GrownPasses DEF Adding, Schedules
<1>2. /\ m # Root => m \in Pass /\ ManagerOf(m) = Root /\ m \in Nat /\ IsManager(m)
      /\ m # Root => \A p \in Pass : ManagerOf(p) = Root => p <= m
      /\ Root \in Managers
  BY PassNumbers DEF Adding, Schedules, Managers
<1>3. PICK n \in {Root, m} :
        /\ id \in DOMAIN AvailableAnalysis[n] /\ (n # m => id \notin DOMAIN AvailableAnalysis[m])
        /\ LastUser'[AvailableAnalysis[n][id]] = IF n = m THEN P ELSE m
  BY DEF Adding, Used
<1>4. PICK e : e = AvailableAnalysis[n][id]
  OBVIOUS
<1>5. Lists(n, End, id, e) /\ n \in OnStack /\ m \in OnStack
  BY <1>3, <1>4 DEF Adding, ListedWhileBuilding
<1>6. e \in Passes /\ e \in Pass /\ e \in Nat /\ ManagerOf(e) = n /\ ~IsManager(e)
  BY <1>1, <1>5 DEF Lists, Passes
<1>7. \A x, o : o \in Managers =>
        /\ \A b \in Pass : ManagerOf(b) = o => (Lists(o, b, id, x)' <=> Lists(o, b, id, x))
        /\ o = m => (Lists(o, P, id, x)' <=> Lists(o, P, id, x))
  BY <1>2, GrownLists DEF Schedules, Adding
<1>8. CASE n = m
  <2>1. Lists(m, P, id, e)'
    BY <1>5, <1>7, <1>8
  <2>2. Serves(P, id, e)'
    BY <1>1, <2>1, ServesNow
  <2> QED
    BY <1>1, <1>3, <1>4, <1>6, <1>8, <2>2
<1>9. CASE n # m
  <2>1. n = Root /\ m # Root
    BY <1>3, <1>9
  <2>2. Lists(Root, m, id, e)
    <3>1. e < m
      BY <1>2, <1>6, <2>1
    <3>2. Between(Root, e, m) \subseteq Between(Root, e, End)
      BY <1>1, <1>2, <2>1 DEF Between
    <3> QED
      BY <1>5, <2>1, <3>1, <3>2 DEF Lists
  <2>3. Lists(Root, m, id, e)'
    BY <1>2, <1>7, <2>1, <2>2
  <2>4. ASSUME NEW x \in Pass'
        PROVE  ~Lists(m, P, id, x)'
    <3>1. SUFFICES ASSUME Lists(m, P, id, x)
                   PROVE  FALSE
      BY <1>7
    <3>2. x \in Passes /\ id \in Ids(KindOf(x))
      BY <3>1 DEF Lists
    <3>3. KindOf(x) \in Kind
      BY <3>2, PassKinds DEF Schedules
    <3>4. id \in ID
      BY <3>2, <3>3, PassManagerAssumption DEF Ids, ID
    <3>5. id \in DOMAIN AvailableAnalysis[m]
      BY <1>5, <3>1, <3>2, <3>4 DEF ListedWhileBuilding
    <3> QED
      BY <1>3, <1>9, <3>5
  <2>5. Serves(P, id, e)'
    BY <1>1, <2>1, <2>3, <2>4, ServesNow
  <2>6. m <= LastUser'[e]
    BY <1>2, <1>3, <1>4, <1>9, <2>1
  <2> QED
    BY <1>6, <1>9, <2>5, <2>6
<1> QED
  BY <1>8, <1>9

\* With the new pass every pass is served.
LEMMA AddingAllServed ==
  ASSUME Schedules, AllServed, ListedWhileBuilding, NEW k \in Kind, NEW m \in Managers, Adding(k, m)
  PROVE  AllServed'
<1>p. PICK P : P = End
  OBVIOUS
<1>1. /\ Pass' = Pass \cup {P} /\ P \notin Pass /\ P \in Nat
      /\ \A p \in Pass : p \in Nat /\ p < P
      /\ \A p \in Pass : KindOf(p)' = KindOf(p) /\ ManagerOf(p)' = ManagerOf(p)
      /\ KindOf(P)' = k /\ ManagerOf(P)' = m
      /\ Passes' = Passes \cup {P}
  BY <1>p, GrownPasses DEF Adding, Schedules
<1>2. /\ \A p \in Passes : /\ p \in Pass /\ LastUser[p] \in Pass
                           /\ ManagerOf(LastUser[p]) = ManagerOf(p)
      /\ \A p \in Pass : ManagerOf(p) \in Nat
      /\ m # Root => \A p \in Pass : ManagerOf(p) = Root => p <= m
      /\ m # Root => m \in Nat
  BY PassNumbers DEF Schedules, LastUsers, Passes, Managed, Adding
<1>3. ASSUME NEW e \in Passes
      PROVE  LastUser'[e] \in Nat /\ LastUser[e] <= LastUser'[e]
  <2>1. CASE LastUser'[e] = LastUser[e]
    BY <1>1, <1>2, <2>1
  <2>2. CASE LastUser'[e] # LastUser[e]
    <3>1. /\ LastUser'[e] = IF ManagerOf(e) = m THEN P ELSE m
          /\ ManagerOf(e) \in {Root, m}
      BY <1>p, <2>2, UsedInAdding
    <3> QED
      BY <1>1, <1>2, <3>1
  <2> QED
    BY <2>1, <2>2
<1>4. ASSUME NEW p \in Passes', NEW id \in Required(KindOf(p)')
      PROVE  \E e \in Passes' : /\ Serves(p, id, e)'
                                /\ (IF ManagerOf(e)' = ManagerOf(p)' THEN p ELSE ManagerOf(p)')
                                     <= LastUser'[e]
  <2>1. CASE p \in Passes
    <3>1. id \in Required(KindOf(p)) /\ p \in Pass
      BY <1>1, <1>2, <1>4, <2>1
    <3>2. PICK e \in Passes :
            /\ Serves(p, id, e)
            /\ (IF ManagerOf(e) = ManagerOf(p) THEN p ELSE ManagerOf(p)) <= LastUser[e]
      BY <2>1, <3>1 DEF AllServed
    <3>3. Serves(p, id, e)'
      BY <3>1, <3>2, GrownServes DEF Schedules, Adding
    <3>4. PICK o \in Nat : o = IF ManagerOf(e) = ManagerOf(p) THEN p ELSE ManagerOf(p)
      BY <1>1, <1>2, <3>1
    <3>5. LastUser[e] \in Nat /\ o <= LastUser[e]
      BY <1>1, <1>2, <3>2, <3>4
    <3>6. o <= LastUser'[e]
      BY <1>3, <3>5
    <3>7. e \in Passes' /\ ManagerOf(e)' = ManagerOf(e) /\ ManagerOf(p)' = ManagerOf(p)
      BY <1>1, <1>2, <3>1
    <3> QED
      BY <3>3, <3>4, <3>6, <3>7
  <2>2. CASE p = P
    <3>1. id \in Required(k)
      BY <1>1, <1>4, <2>2
    <3>2. PICK e \in Passes : /\ Serves(P, id, e)'
                              /\ (IF ManagerOf(e) = m THEN P ELSE m) <= LastUser'[e]
      BY <1>p, <3>1, AddingServes
    <3>3. e \in Passes' /\ ManagerOf(e)' = ManagerOf(e)
      BY <1>1, <1>2
    <3> QED
      BY <1>1, <2>2, <3>2, <3>3
  <2> QED
    BY <1>1, <2>1, <2>2
<1>5. \A p : Required(KindOf(p))' = Required(KindOf(p)')
  BY DEF Required
<1> QED
  BY <1>4, <1>5 DEF AllServed

\* What is listed after the addition is what the schedule says.
LEMMA AddingListed ==
  ASSUME Schedules, ListedWhileBuilding, NEW k \in Kind, NEW m \in Managers, Adding(k, m),
         OnStack' \subseteq {Root, m}
  PROVE  ListedWhileBuilding'
<1>p. PICK P : P = End
  OBVIOUS
<1>1. /\ Pass' = Pass \cup {P} /\ P \notin Pass /\ P \in Nat /\ End' = P + 1
      /\ Passes' = Passes \cup {P} /\ Root \in Managers
  BY <1>p, GrownPasses, PassNumbers DEF Adding, Schedules
<1>2. \A id, e :
        /\ Lists(m, P + 1, id, e)' <=> \/ e = P /\ id \in Ids(k)
                                       \/ Lists(m, P, id, e) /\ id \in Preserves[k] /\ id \notin Ids(k)
        /\ m # Root => (Lists(Root, P + 1, id, e)' <=> Lists(Root, P, id, e) /\ id \in Preserves[k])
  BY <1>p, <1>1, GrownLists DEF Schedules, Adding
<1>3. ASSUME NEW n \in OnStack'
      PROVE  /\ \A id \in DOMAIN AvailableAnalysis'[n] : Lists(n, P + 1, id, AvailableAnalysis[n][id])'
             /\ \A id \in ID : \A e \in Passes' :
                  Lists(n, P + 1, id, e)' =>
                    id \in DOMAIN AvailableAnalysis'[n] /\ AvailableAnalysis'[n][id] = e
  <2>1. CASE n = m
    <3>1. /\ DOMAIN AvailableAnalysis'[m] = (DOMAIN AvailableAnalysis[m] \cap Preserves[k]) \cup Ids(k)
          /\ \A id \in DOMAIN AvailableAnalysis'[m] :
               AvailableAnalysis'[m][id] = IF id \in Ids(k) THEN P ELSE AvailableAnalysis[m][id]
      BY <1>p DEF Adding, ListsNow
    <3>2. /\ \A id \in DOMAIN AvailableAnalysis[m] : Lists(m, P, id, AvailableAnalysis[m][id])
          /\ \A id \in ID : \A e \in Passes :
               Lists(m, P, id, e) => id \in DOMAIN AvailableAnalysis[m] /\ AvailableAnalysis[m][id] = e
      BY <1>p DEF Adding, ListedWhileBuilding
    <3>3. ASSUME NEW id \in DOMAIN AvailableAnalysis'[m]
          PROVE  Lists(m, P + 1, id, AvailableAnalysis[m][id])'
      <4>1. PICK e : e = AvailableAnalysis'[m][id]
        OBVIOUS
      <4>2. Lists(m, P + 1, id, e)'
        BY <1>2, <3>1, <3>2, <4>1
      <4> QED
        BY <4>1, <4>2 DEF Lists, Between
    <3>4. ASSUME NEW id \in ID, NEW e \in Passes', Lists(m, P + 1, id, e)'
          PROVE  id \in DOMAIN AvailableAnalysis'[m] /\ AvailableAnalysis'[m][id] = e
      <4>1. CASE e = P /\ id \in Ids(k)
        BY <3>1, <4>1
      <4>2. CASE Lists(m, P, id, e) /\ id \in Preserves[k] /\ id \notin Ids(k)
        <5>1. e \in Passes
          BY <4>2 DEF Lists
        <5> QED
          BY <3>1, <3>2, <4>2, <5>1
      <4> QED
        BY <1>2, <3>4, <4>1, <4>2
    <3> QED
      BY <2>1, <3>3, <3>4
  <2>2. CASE n = Root /\ m # Root
    <3>1. /\ DOMAIN AvailableAnalysis'[Root] = DOMAIN AvailableAnalysis[Root] \cap Preserves[k]
          /\ \A id \in DOMAIN AvailableAnalysis'[Root] :
               AvailableAnalysis'[Root][id] = AvailableAnalysis[Root][id]
      BY <2>2 DEF Adding, ListsNow
    <3>2. /\ \A id \in DOMAIN AvailableAnalysis[Root] : Lists(Root, P, id, AvailableAnalysis[Root][id])
          /\ \A id \in ID : \A e \in Passes :
               Lists(Root, P, id, e) =>
                 id \in DOMAIN AvailableAnalysis[Root] /\ AvailableAnalysis[Root][id] = e
      BY <1>p DEF Adding, ListedWhileBuilding
    <3>3. ASSUME NEW id \in DOMAIN AvailableAnalysis'[Root]
          PROVE  Lists(Root, P + 1, id, AvailableAnalysis[Root][id])'
      <4>1. PICK e : e = AvailableAnalysis'[Root][id]
        OBVIOUS
      <4>2. Lists(Root, P + 1, id, e)'
        BY <1>2, <2>2, <3>1, <3>2, <4>1
      <4> QED
        BY <4>1, <4>2 DEF Lists, Between, Root
    <3>4. ASSUME NEW id \in ID, NEW e \in Passes', Lists(Root, P + 1, id, e)'
          PROVE  id \in DOMAIN AvailableAnalysis'[Root] /\ AvailableAnalysis'[Root][id] = e
      <4>1. Lists(Root, P, id, e) /\ id \in Preserves[k]
        BY <1>2, <2>2, <3>4
      <4>2. e \in Passes
        BY <4>1 DEF Lists
      <4> QED
        BY <3>1, <3>2, <4>1, <4>2
    <3> QED
      BY <2>2, <3>3, <3>4
  <2> QED
    BY <2>1, <2>2
<1>4. \A n \in OnStack' :
        /\ \A id \in DOMAIN AvailableAnalysis'[n] : Lists(n, End, id, AvailableAnalysis[n][id])'
        /\ \A id \in ID : \A e \in Passes' :
             Lists(n, End, id, e)' =>
               id \in DOMAIN AvailableAnalysis'[n] /\ AvailableAnalysis'[n][id] = e
  BY <1>1, <1>3 DEF Lists, Between
<1>5. ID' = ID
  BY DEF ID
<1> QED
  BY <1>4, <1>5 DEF ListedWhileBuilding

\* A new function pass manager has no passes yet, and preserves everything.
LEMMA NewManagerKeepsOrder ==
  ASSUME Schedules, AllServed, Grown(FPPassManager, Root), LastUser' = LastUser
  PROVE  AllServed'
<1>1. PICK P : P = End
  OBVIOUS
<1>2. Root \in Managers
  BY PassNumbers DEF Schedules
<1>3. /\ \A p \in Pass : KindOf(p)' = KindOf(p) /\ ManagerOf(p)' = ManagerOf(p)
      /\ Passes' = Passes /\ \A p \in Passes : p \in Pass
  BY <1>1, <1>2, GrownPasses DEF Schedules, Passes
<1>4. ASSUME NEW p \in Passes, NEW id \in Required(KindOf(p)')
      PROVE  \E e \in Passes : /\ Serves(p, id, e)'
                               /\ (IF ManagerOf(e)' = ManagerOf(p)' THEN p ELSE ManagerOf(p)')
                                    <= LastUser'[e]
  <2>1. id \in Required(KindOf(p)) /\ p \in Pass
    BY <1>3
  <2>2. PICK e \in Passes :
          /\ Serves(p, id, e)
          /\ (IF ManagerOf(e) = ManagerOf(p) THEN p ELSE ManagerOf(p)) <= LastUser[e]
    BY <2>1 DEF AllServed
  <2>3. Serves(p, id, e)'
    BY <1>2, <2>1, <2>2, GrownServes DEF Schedules
  <2> QED
    BY <1>3, <2>1, <2>2, <2>3
<1>5. \A p : Required(KindOf(p))' = Required(KindOf(p)')
  BY DEF Required
<1> QED
  BY <1>3, <1>4, <1>5 DEF AllServed

LEMMA NewManagerLists ==
  ASSUME Schedules, ListedWhileBuilding, Grown(FPPassManager, Root), Root \in OnStack,
         OnStack' = {Root, End}, AvailableAnalysis'[Root] = AvailableAnalysis[Root],
         DOMAIN AvailableAnalysis'[End] = {}
  PROVE  ListedWhileBuilding'
<1>p. PICK P : P = End
  OBVIOUS
<1>0. Root \in Managers /\ Root \notin Pass
  BY PassNumbers DEF Schedules
<1>1. /\ Pass' = Pass \cup {P} /\ P \notin Pass /\ P \in Nat /\ P # Root /\ P \notin Managers
      /\ End' = P + 1
      /\ \A p \in Pass : p \in Nat /\ p < P
      /\ \A p \in Pass : KindOf(p)' = KindOf(p) /\ ManagerOf(p)' = ManagerOf(p)
      /\ Passes' = Passes
  BY <1>p, <1>0, GrownPasses DEF Schedules
<1>2. /\ \A p \in Passes : p \in Pass
      /\ \A p \in Pass : ManagerOf(p) # P
  BY <1>1 DEF Passes, Managed, Schedules
<1>4. \A id, e : Lists(Root, P + 1, id, e)' <=> Lists(Root, P, id, e)
  BY <1>p, <1>0, GrownLists DEF Schedules
<1>5. \A id, e : ~Lists(P, P + 1, id, e)'
  BY <1>1, <1>2 DEF Lists
<1>6. /\ \A id \in DOMAIN AvailableAnalysis'[Root] : Lists(Root, P + 1, id, AvailableAnalysis[Root][id])'
      /\ \A id \in ID : \A e \in Passes' :
           Lists(Root, P + 1, id, e)' =>
             id \in DOMAIN AvailableAnalysis'[Root] /\ AvailableAnalysis'[Root][id] = e
  <2>1. ASSUME NEW id \in DOMAIN AvailableAnalysis'[Root]
        PROVE  Lists(Root, P + 1, id, AvailableAnalysis[Root][id])'
    <3>1. PICK e : e = AvailableAnalysis[Root][id] /\ e = AvailableAnalysis'[Root][id]
      OBVIOUS
    <3>2. Lists(Root, P + 1, id, e)'
      BY <1>p, <1>4, <2>1, <3>1 DEF ListedWhileBuilding
    <3> QED
      BY <3>1, <3>2 DEF Lists, Between, Root
  <2> QED
    BY <1>p, <1>1, <1>4, <2>1 DEF ListedWhileBuilding
<1> QED
  <2>1. \A n \in OnStack' :
          /\ \A id \in DOMAIN AvailableAnalysis'[n] : Lists(n, P + 1, id, AvailableAnalysis[n][id])'
          /\ \A id \in ID : \A e \in Passes' :
               Lists(n, P + 1, id, e)' =>
                 id \in DOMAIN AvailableAnalysis'[n] /\ AvailableAnalysis'[n][id] = e
    BY <1>p, <1>5, <1>6
  <2>2. \A n \in OnStack' :
          /\ \A id \in DOMAIN AvailableAnalysis'[n] : Lists(n, End, id, AvailableAnalysis[n][id])'
          /\ \A id \in ID : \A e \in Passes' :
               Lists(n, End, id, e)' =>
                 id \in DOMAIN AvailableAnalysis'[n] /\ AvailableAnalysis'[n][id] = e
    BY <1>1, <2>1 DEF Lists, Between
  <2>3. ID' = ID
    BY DEF ID
  <2> QED
    BY <2>2, <2>3 DEF ListedWhileBuilding

\* With the same passes the same is listed.
LEMMA SameLists ==
  ASSUME UNCHANGED passes
  PROVE  /\ Pass' = Pass /\ Passes' = Passes /\ Managers' = Managers /\ End' = End
         /\ \A p : /\ KindOf(p)' = KindOf(p) /\ ManagerOf(p)' = ManagerOf(p)
                  /\ IsManager(p)' <=> IsManager(p)
         /\ \A l, id : Keeps(l, id)' <=> Keeps(l, id)
         /\ \A n, b, id, e : Lists(n, b, id, e)' <=> Lists(n, b, id, e)
         /\ \A p, id, e : Serves(p, id, e)' <=> Serves(p, id, e)
<1>1. /\ Pass' = Pass /\ Passes' = Passes /\ Managers' = Managers /\ End' = End
      /\ \A p : /\ KindOf(p)' = KindOf(p) /\ ManagerOf(p)' = ManagerOf(p)
               /\ IsManager(p)' <=> IsManager(p)
  BY DEF Pass, Passes, Managers, End, KindOf, ManagerOf, IsManager, Root
<1>2. \A l, id : Keeps(l, id)' <=> Keeps(l, id)
  BY DEF Keeps, Pass, KindOf, ManagerOf, IsManager
<1>3. \A n, b, id, e : Lists(n, b, id, e)' <=> Lists(n, b, id, e)
  BY DEF Lists, Between, Ids, Keeps, Passes, Pass, IsManager, KindOf, ManagerOf
<1>4. ASSUME NEW p, NEW id, NEW e
      PROVE  Serves(p, id, e)' <=> Serves(p, id, e)
  <2>1. PICK n : n = ManagerOf(p) /\ n = ManagerOf(p)'
    BY DEF ManagerOf
  <2> QED
    BY <1>1, <1>3, <2>1, ServesNow
<1> QED
  BY <1>1, <1>2, <1>3, <1>4

\* A step that leaves the schedule and what is listed as they are.
LEMMA SameOrder ==
  ASSUME AllServed, UNCHANGED <<passes, LastUser>>
  PROVE  AllServed'
<1>1. /\ Passes' = Passes
      /\ \A p, id, e : Serves(p, id, e)' <=> Serves(p, id, e)
  BY SameLists
<1>2. \A p : ManagerOf(p)' = ManagerOf(p) /\ Required(KindOf(p))' = Required(KindOf(p))
  BY DEF Required, KindOf, ManagerOf
<1> QED
  BY <1>1, <1>2 DEF AllServed

LEMMA SameListed ==
  ASSUME ListedWhileBuilding, UNCHANGED <<passes, AvailableAnalysis, activeStack>>
  PROVE  ListedWhileBuilding'
BY DEF ListedWhileBuilding, OnStack, End, Lists, Between, Keeps, Ids, Passes, Pass, IsManager, KindOf,
       ManagerOf, ID

LEMMA SameWellKept ==
  ASSUME UNCHANGED <<passes, LastUser>>
  PROVE  WellKept' <=> WellKept
<1>1. RemadeOutliveNone' <=> RemadeOutliveNone
  BY DEF RemadeOutliveNone, Requirable, Required, Passes, Pass, IsManager, KindOf, ManagerOf
<1>2. ModuleResultsStay' <=> ModuleResultsStay
  <2>1. /\ Passes' = Passes /\ Pass' = Pass
        /\ \A p : ManagerOf(p)' = ManagerOf(p) /\ Required(KindOf(p))' = Required(KindOf(p))
        /\ \A p, id, e : Serves(p, id, e)' <=> Serves(p, id, e)
    BY SameLists DEF Required, KindOf, ManagerOf
  <2>2. \A p, id : Keeps(ManagerOf(p), id)' <=> Keeps(ManagerOf(p), id)
    BY DEF Keeps, Pass, IsManager, KindOf, ManagerOf
  <2> QED
    BY <2>1, <2>2 DEF ModuleResultsStay, Root
<1> QED
  BY <1>1, <1>2 DEF WellKept

\* The actions of building, one by one.
LEMMA SameScheduleOrder ==
  ASSUME JInv, AddPass \/ RequiredIsThere \/ CheckAgain \/ ScheduleRequired
  PROVE  AllServed' /\ ListedWhileBuilding'
<1>1. /\ phase = "build" /\ ~unreachable
      /\ UNCHANGED <<passes, LastUser, AvailableAnalysis, activeStack>>
  BY DEF AddPass, RequiredIsThere, CheckAgain, ScheduleRequired, Scheduling
<1> QED
  BY <1>1, SameOrder, SameListed DEF JInv

LEMMA AddModulePassOrder ==
  ASSUME JInv, AddModulePass
  PROVE  AllServed' /\ (~unreachable' => ListedWhileBuilding')
<1> DEFINE avail == [m \in Managers |-> IF m \in InheritedAnalysis(Root) THEN Nothing
                                        ELSE AvailableAnalysis[m]]
<1>k. PICK k \in Kind : k = Caller.kind
  BY CallerOK DEF JInv, AddModulePass
<1>1. /\ Scheduling /\ phase = "build" /\ ~unreachable
      /\ activeStack' = <<Root>> /\ calls' = Tail(calls)
      /\ Adds(k, Root, passes, PassVector, avail, LastUser, {})
  BY <1>k DEF AddModulePass, Scheduling
<1>2. /\ IInv /\ Schedules /\ Listed /\ Root \in Managers /\ AllServed /\ ListedWhileBuilding
  BY <1>1, PassNumbers DEF JInv, IInv, Schedules
<1>3. CASE unreachable'
  BY <1>1, <1>2, <1>3, SameOrder DEF Adds
<1>4. CASE ~unreachable'
  <2>1. /\ \A n \in Managers \ {Root} : DOMAIN avail[n] = {}
        /\ avail[Root] = AvailableAnalysis[Root]
    <3>1. \A n \in Managers \ {Root} : n \notin InheritedAnalysis(Root) => DOMAIN AvailableAnalysis[n] = {}
      BY <1>1, <1>2 DEF IInv, Stack, InheritedAnalysis
    <3>2. Root \notin InheritedAnalysis(Root)
      BY DEF InheritedAnalysis
    <3> QED
      BY <1>2, <3>1, <3>2 DEF Nothing
  <2>2. /\ avail = [n \in Managers |-> avail[n]]
        /\ \A n \in Managers : \A id \in DOMAIN avail[n] :
             avail[n][id] \in Passes /\ ManagerOf(avail[n][id]) = n
    BY <1>2, <2>1 DEF Listed
  <2>3. Root \in OnStack
    <3>1. activeStack[1] = Root /\ 1 \in DOMAIN activeStack
      BY <1>2 DEF IInv, Stack
    <3> QED
      BY <3>1 DEF OnStack
  <2>4. OnStack' = {Root}
    <3>1. DOMAIN activeStack' = {1} /\ activeStack'[1] = Root
      BY <1>1
    <3> QED
      BY <3>1 DEF OnStack
  <2> HIDE DEF avail
  <2>5. Grown(k, Root) /\ Used(k, Root) /\ ListsNow(k, Root)
    <3>1. \A n \in Managers \ {Root, Root} : DOMAIN avail[n] = {}
      BY <2>1
    <3>2. {} \cup {Root} = {Root, Root}
      OBVIOUS
    <3> QED
      BY <1>1, <1>2, <1>4, <2>1, <2>2, <3>1, <3>2, AddsGives
  <2>6. Adding(k, Root)
    BY <1>2, <2>3, <2>5 DEF Adding
  <2>7. AllServed'
    BY <1>2, <2>6, AddingAllServed
  <2>8. ListedWhileBuilding'
    BY <1>2, <2>4, <2>6, AddingListed
  <2> QED
    BY <2>7, <2>8
<1> QED
  BY <1>3, <1>4

LEMMA AddFunctionPassOrder ==
  ASSUME JInv, AddFunctionPass
  PROVE  AllServed' /\ (~unreachable' => ListedWhileBuilding')
<1>m. PICK m : m = activeStack[Len(activeStack)]
  OBVIOUS
<1>k. PICK k \in Kind : k = Caller.kind
  BY CallerOK DEF JInv, AddFunctionPass
<1>1. /\ Scheduling /\ phase = "build" /\ ~unreachable
      /\ activeStack' = activeStack /\ calls' = Tail(calls)
      /\ Adds(k, m, passes, PassVector, AvailableAnalysis, LastUser, InheritedAnalysis(m))
      /\ functionTop \/ Len(activeStack) = 2
  BY <1>k, <1>m DEF AddFunctionPass, Scheduling
<1>2. /\ IInv /\ Schedules /\ Listed /\ Root \in Managers /\ AllServed /\ ListedWhileBuilding
      /\ \A n \in Managers : n # Root => ~functionTop
  BY <1>1, PassNumbers DEF JInv, IInv, Schedules
<1>3. CASE unreachable'
  BY <1>1, <1>2, <1>3, SameOrder DEF Adds
<1>4. CASE ~unreachable'
  <2>1. m \in Managers /\ OnStack = {Root, m}
    <3>1. CASE activeStack = <<Root>>
      BY <1>m, <1>1, <1>2, <3>1 DEF OnStack
    <3>2. CASE \E n \in Managers \ {Root} : activeStack = <<Root, n>>
      BY <1>m, <1>1, <1>2, <3>2 DEF OnStack
    <3> QED
      BY <1>2, <3>1, <3>2 DEF IInv, Stack
  <2>2. /\ AvailableAnalysis = [n \in Managers |-> AvailableAnalysis[n]]
        /\ \A n \in Managers : \A id \in DOMAIN AvailableAnalysis[n] :
             AvailableAnalysis[n][id] \in Passes /\ ManagerOf(AvailableAnalysis[n][id]) = n
    BY <1>2 DEF Listed
  <2>3. \A n \in Managers \ {Root, m} : DOMAIN AvailableAnalysis[n] = {}
    BY <1>1, <1>2, <2>1 DEF IInv, Stack, OnStack
  <2>4. m # Root => \A p \in Pass : ManagerOf(p) = Root => p <= m
    <3>1. \E i \in DOMAIN activeStack : activeStack[i] = m
      BY <2>1 DEF OnStack
    <3> QED
      BY <3>1, <1>1, <1>2 DEF IInv, Stack
  <2>5. InheritedAnalysis(m) \cup {m} = {Root, m}
    BY <2>1 DEF InheritedAnalysis, OnStack
  <2>6. OnStack' = {Root, m}
    BY <1>1, <2>1 DEF OnStack
  <2>7. Grown(k, m) /\ Used(k, m) /\ ListsNow(k, m)
    BY <1>1, <1>2, <1>4, <2>1, <2>2, <2>3, <2>5, AddsGives
  <2>8. Adding(k, m)
    BY <2>1, <2>4, <2>7 DEF Adding
  <2>9. AllServed'
    BY <1>2, <2>1, <2>8, AddingAllServed
  <2>10. ListedWhileBuilding'
    BY <1>2, <2>1, <2>6, <2>8, AddingListed
  <2> QED
    BY <2>9, <2>10
<1> QED
  BY <1>3, <1>4

LEMMA NewFPPassManagerOrder ==
  ASSUME JInv, NewFPPassManager
  PROVE  AllServed' /\ ListedWhileBuilding'
<1>p. PICK P : P = End
  OBVIOUS
<1> DEFINE S == [kind : Kind \cup {FPPassManager}, manager : Nat]
           new == [kind |-> FPPassManager, manager |-> Root]
<1>1. /\ phase = "build" /\ ~unreachable /\ LastUser' = LastUser
      /\ passes' = Append(passes, new)
      /\ AvailableAnalysis' = [n \in Managers \cup {P} |-> IF n = P THEN Nothing
                                                          ELSE AvailableAnalysis[n]]
      /\ activeStack' = <<Root, P>>
  BY <1>p DEF NewFPPassManager, Scheduling, End
<1>2. /\ Schedules /\ AllServed /\ ListedWhileBuilding
      /\ Pass = 1 .. Len(passes) /\ Len(passes) \in Nat /\ Managers \subseteq Nat
      /\ Root \in Managers /\ Root \notin Pass /\ \A n \in Managers : n # Root => n \in Pass
      /\ activeStack[1] = Root /\ 1 \in DOMAIN activeStack
      /\ passes \in Seq(S) /\ new \in S
  BY <1>1, PassNumbers DEF JInv, IInv, Schedules, Managed, Stack
<1>3. Grown(FPPassManager, Root)
  <2>1. /\ passes' \in Seq(S) /\ Pass' = 1 .. (Len(passes) + 1)
        /\ passes'[Len(passes) + 1] = new /\ \A p \in Pass : passes'[p] = passes[p]
    <3> HIDE DEF S, new
    <3> QED
      BY <1>1, <1>2 DEF Pass
  <2> QED
    BY <1>2, <2>1 DEF Grown, End
<1>4. P \notin Managers /\ Root # P
  BY <1>p, <1>2 DEF End, Root
<1>5. /\ AvailableAnalysis'[Root] = AvailableAnalysis[Root]
      /\ DOMAIN AvailableAnalysis'[P] = {}
      /\ \A n \in Managers : AvailableAnalysis'[n] = AvailableAnalysis[n]
  BY <1>1, <1>2, <1>4 DEF Nothing
<1>6. OnStack' = {Root, P} /\ Root \in OnStack
  <2>1. DOMAIN activeStack' = {1, 2} /\ activeStack'[1] = Root /\ activeStack'[2] = P
    BY <1>1
  <2> QED
    BY <1>2, <2>1 DEF OnStack
<1>7. AllServed'
  BY <1>1, <1>2, <1>3, NewManagerKeepsOrder
<1>8. ListedWhileBuilding'
  BY <1>p, <1>2, <1>3, <1>5, <1>6, NewManagerLists
<1> QED
  BY <1>7, <1>8
------------------------------------------------------------------------------
(* The run goes through the schedule. *)

\* No pass of a manager is before its first one, ...
LEMMA AtFirst ==
  ASSUME Schedules, NEW m \in Managers
  PROVE  \A e \in Pass : ManagerOf(e) = m => ~(e < At(m, 1))
<1>1. SUFFICES ASSUME NEW e \in Pass, ManagerOf(e) = m
               PROVE  ~(e < At(m, 1))
  OBVIOUS
<1>2. PICK i \in DOMAIN PassVector[m] : PassVector[m][i] = e
  BY <1>1 DEF Schedules, Vectors
<1>3. /\ PassVector[m] \in Seq(Nat)
      /\ \A x, y \in DOMAIN PassVector[m] : x < y => PassVector[m][x] < PassVector[m][y]
  BY DEF Schedules, Vectors
<1>4. 1 \in DOMAIN PassVector[m] /\ (i = 1 \/ 1 < i)
  BY <1>2, <1>3
<1>5. PassVector[m][1] \in Nat /\ e \in Nat
  BY <1>2, <1>3, <1>4
<1> QED
  BY <1>2, <1>3, <1>4, <1>5 DEF At

\* ... and none is between one and the next.
LEMMA AtNext ==
  ASSUME Schedules, NEW m \in Managers, NEW i \in DOMAIN PassVector[m],
         NEW p, p = PassVector[m][i], NEW y, y = At(m, i + 1)
  PROVE  /\ p \in Pass /\ ManagerOf(p) = m /\ p \in Nat /\ y \in Nat /\ p < y /\ i \in Nat
         /\ \A e \in Pass : ManagerOf(e) = m /\ e < y => e <= p
<1>1. /\ PassVector[m] \in Seq(Nat)
      /\ \A x, z \in DOMAIN PassVector[m] : x < z => PassVector[m][x] < PassVector[m][z]
      /\ \A x \in DOMAIN PassVector[m] : PassVector[m][x] \in Pass /\ ManagerOf(PassVector[m][x]) = m
  BY DEF Schedules, Vectors
<1>2. \A q \in Pass : q \in Nat /\ q < End /\ End \in Nat
  BY PassNumbers DEF Schedules, End
<1>3. i \in Nat /\ i + 1 \in Nat /\ i < i + 1
  BY <1>1
<1>4. y \in Nat /\ p < y
  BY <1>1, <1>2, <1>3 DEF At
<1>5. ASSUME NEW e \in Pass, ManagerOf(e) = m, e < y
      PROVE  e <= p
  <2>1. PICK j \in DOMAIN PassVector[m] : PassVector[m][j] = e
    BY <1>5 DEF Schedules, Vectors
  <2>2. CASE j < i
    BY <1>1, <1>2, <2>1, <2>2
  <2>3. CASE j = i
    BY <1>1, <1>2, <2>1, <2>3
  <2>4. CASE i < j
    <3>1. i + 1 \in DOMAIN PassVector[m] /\ (i + 1 = j \/ i + 1 < j)
      BY <1>1, <2>4
    <3>2. y = PassVector[m][i + 1]
      BY <3>1 DEF At
    <3>3. y = e \/ y < e
      BY <1>1, <2>1, <3>1, <3>2
    <3> QED
      BY <1>2, <1>4, <1>5, <3>3
  <2> QED
    BY <1>1, <2>2, <2>3, <2>4
<1> QED
  BY <1>1, <1>2, <1>3, <1>4, <1>5

\* What is listed after one more pass of the manager.
LEMMA ListsNext ==
  ASSUME Schedules, NEW m \in Managers, NEW i \in DOMAIN PassVector[m],
         NEW p, p = PassVector[m][i], NEW y, y = At(m, i + 1), NEW id, NEW e
  PROVE  /\ IsManager(p) => (Lists(m, y, id, e) <=> Lists(m, p, id, e) /\ Keeps(p, id))
         /\ ~IsManager(p) =>
              (Lists(m, y, id, e) <=>
                 \/ e = p /\ id \in Ids(KindOf(p))
                 \/ Lists(m, p, id, e) /\ id \in Preserves[KindOf(p)] /\ id \notin Ids(KindOf(p)))
<1>1. /\ p \in Pass /\ ManagerOf(p) = m /\ p \in Nat /\ y \in Nat /\ p < y
      /\ \A q \in Pass : ManagerOf(q) = m /\ q < y => q <= p
  BY AtNext
<1>2. \A q \in Pass : q \in Nat
  BY PassNumbers DEF Schedules
<1>3. \A q \in Pass : ManagerOf(q) = m => (q < y <=> q < p \/ q = p)
  <2> SUFFICES ASSUME NEW q \in Pass, ManagerOf(q) = m
               PROVE  q < y <=> q < p \/ q = p
    OBVIOUS
  <2>1. q \in Nat /\ (q < y => q <= p)
    BY <1>1, <1>2
  <2> QED
    BY <1>1, <2>1
<1>4. ~(p < p) /\ \A q \in Pass : ~(p < q /\ q < p)
  BY <1>1, <1>2
<1>5. CASE e = p
  <2>1. ~Lists(m, p, id, e)
    BY <1>4, <1>5 DEF Lists
  <2>2. Between(m, p, y) = {}
    BY <1>3, <1>4 DEF Between
  <2>3. Lists(m, y, id, e) <=> ~IsManager(p) /\ id \in Ids(KindOf(p))
    BY <1>1, <1>5, <2>2 DEF Lists, Passes
  <2> QED
    BY <1>5, <2>1, <2>3
<1>6. CASE e # p /\ e \in Passes /\ ManagerOf(e) = m /\ id \in Ids(KindOf(e))
  <2>1. e \in Pass /\ (e < y <=> e < p)
    BY <1>3, <1>6 DEF Passes
  <2>2. CASE e < p
    <3>1. Between(m, e, y) = Between(m, e, p) \cup {p}
      BY <1>1, <1>3, <2>2 DEF Between
    <3>2. Lists(m, y, id, e) <=>
            Lists(m, p, id, e) /\ Keeps(p, id) /\ (~IsManager(p) => id \notin Ids(KindOf(p)))
      BY <1>6, <2>1, <2>2, <3>1 DEF Lists
    <3> QED
      BY <1>6, <3>2 DEF Keeps
  <2>3. CASE ~(e < p)
    BY <1>6, <2>1, <2>3 DEF Lists
  <2> QED
    BY <2>2, <2>3
<1>7. CASE e # p /\ ~(e \in Passes /\ ManagerOf(e) = m /\ id \in Ids(KindOf(e)))
  BY <1>7 DEF Lists
<1> QED
  BY <1>5, <1>6, <1>7

\* What p frees is of another kind than what is listed and used after p.
LEMMA NotFreed ==
  ASSUME Schedules, RemadeOutliveNone, NEW p \in Pass, NEW e \in Passes, ManagerOf(e) = ManagerOf(p),
         e <= p, p < LastUser[e], NEW id \in Requirable,
         NEW y \in Nat, p < y, Lists(ManagerOf(p), y, id, e),
         NEW f \in Passes, LastUser[f] = p
  PROVE  f # e /\ KindOf(f) # id
<1>1. /\ e \in Nat /\ f \in Nat /\ p \in Nat /\ LastUser[e] \in Nat /\ LastUser[f] \in Nat
      /\ KindOf(e) \in Kind /\ KindOf(f) \in Kind /\ f \in Pass /\ ~IsManager(f)
      /\ f <= p /\ ManagerOf(f) = ManagerOf(p)
  BY PassKinds DEF Schedules, LastUsers, Passes
<1>2. f # e
  BY <1>1
<1>3. SUFFICES ASSUME KindOf(f) = id
               PROVE  FALSE
  BY <1>2
<1>4. id \in Ids(KindOf(e)) /\ \A l \in Between(ManagerOf(p), e, y) : ~IsManager(l) => id \notin Ids(KindOf(l))
  BY DEF Lists
<1>5. KindOf(e) = KindOf(f)
  BY <1>1, <1>3, <1>4, OwnID
<1>6. CASE f < e
  BY <1>1, <1>3, <1>5, <1>6 DEF RemadeOutliveNone
<1>7. CASE e < f
  <2>1. f \in Between(ManagerOf(p), e, y)
    BY <1>1, <1>7 DEF Between
  <2> QED
    BY <1>1, <1>3, <1>4, <2>1 DEF Ids
<1> QED
  BY <1>1, <1>2, <1>6, <1>7

\* What is not freed stays listed.
LEMMA FreeingKeeps ==
  ASSUME NEW avail, NEW m \in DOMAIN avail, NEW F, NEW id \in DOMAIN avail[m], avail[m][id] \notin F,
         \A f \in F : KindOf(f) # id
  PROVE  /\ id \in DOMAIN freePasses(avail, m, F)[m]
         /\ freePasses(avail, m, F)[m][id] = avail[m][id]
BY DEF freePasses, Keeping

\* What is listed after pass p has run, at least.
LEMMA ListedStays ==
  ASSUME NEW D, NEW avail, MapOn(D, avail), NEW m \in D, NEW inherited, NEW p, NEW F, NEW id,
         NEW n \in D,
         n = m => /\ \A f \in F : KindOf(f) # id
                  /\ (IF id \in Ids(KindOf(p)) THEN p ELSE avail[m][id]) \notin F,
         \/ n = m /\ id \in Ids(KindOf(p))
         \/ id \in DOMAIN avail[n] /\ id \in Preserves[KindOf(p)]
  PROVE  LET after == RunAvailable(avail, m, inherited, p, F)
         IN /\ id \in DOMAIN after[n]
            /\ after[n][id] = IF n = m /\ id \in Ids(KindOf(p)) THEN p ELSE avail[n][id]
<1>a. PICK after : after = RunAvailable(avail, m, inherited, p, F)
  OBVIOUS
<1>q. PICK k, I : k = KindOf(p) /\ I = Ids(KindOf(p))
  OBVIOUS
<1> DEFINE left == removeNotPreservedAnalysis(avail, m, inherited, k)
           with == recordAvailableAnalysis(left, m, p)
<1>0. after = freePasses(with, m, F)
  BY <1>a, <1>q DEF RunAvailable
<1>1. /\ left = [l \in D |-> left[l]]
      /\ \A l \in D : \A i \in DOMAIN avail[l] \cap Preserves[k] :
           i \in DOMAIN left[l] /\ left[l][i] = avail[l][i]
  <2>1. left = [l \in D |-> IF l \in {m} \cup inherited THEN Keeping(avail[l], Preserves[k])
                            ELSE avail[l]]
    BY DEF removeNotPreservedAnalysis, MapOn
  <2> HIDE DEF left
  <2> QED
    BY <2>1 DEF Keeping
<1>2. /\ with = [l \in D |-> with[l]]
      /\ \A l \in D \ {m} : with[l] = left[l]
      /\ with[m] = [i \in DOMAIN left[m] \cup I |-> IF i \in I THEN p ELSE left[m][i]]
  <2>1. with = [left EXCEPT ![m] = [i \in DOMAIN @ \cup I |-> IF i \in I THEN p ELSE @[i]]]
    BY <1>q DEF recordAvailableAnalysis
  <2> HIDE DEF left, with
  <2> QED
    BY <2>1, <1>1
<1>3. CASE n = m
  <2> HIDE DEF with, left
  <2>1. id \in DOMAIN with[m] /\ with[m][id] = IF id \in I THEN p ELSE avail[m][id]
    BY <1>1, <1>2, <1>3, <1>q
  <2>2. m \in DOMAIN with /\ with[m][id] \notin F
    BY <1>2, <1>3, <1>q, <2>1
  <2>3. id \in DOMAIN after[m] /\ after[m][id] = with[m][id]
    BY <1>0, <1>3, <2>1, <2>2, FreeingKeeps
  <2> QED
    BY <1>a, <1>q, <1>3, <2>1, <2>3
<1>4. CASE n # m
  <2> HIDE DEF with, left
  <2>1. after[n] = with[n]
    BY <1>0, <1>2, <1>4 DEF freePasses
  <2>2. id \in DOMAIN left[n] /\ left[n][id] = avail[n][id]
    BY <1>1, <1>4, <1>q
  <2> QED
    BY <1>a, <1>2, <1>4, <2>1, <2>2
<1> QED
  BY <1>3, <1>4

\* With its next pass b, manager n lists in avail what the schedule says, and only that;
\* in Root only what the manager M in charge keeps.
ListedAt(M, avail, n, b) ==
  \A id \in Requirable : \A e \in Passes :
    Lists(n, b, id, e) /\ b <= LastUser[e] /\ (n # M => Keeps(M, id)) =>
      id \in DOMAIN avail[n] /\ avail[n][id] = e

OnlyAt(avail, n, b) == \A id \in DOMAIN avail[n] : Lists(n, b, id, avail[n][id])

\* The parts of Runs after a step that leaves the schedule as it is.
LEMMA ListedNow ==
  ASSUME UNCHANGED <<passes, LastUser>>, NEW M, M = Manager', NEW avail, avail = AvailableAnalysis',
         \A n \in {Root, M} : \E b : b = NextOf(n)' /\ ListedAt(M, avail, n, b)
  PROVE  ListedAsScheduled'
<1>1. ASSUME NEW n \in {Root, M}, NEW id \in Requirable, NEW e \in Passes,
             Lists(n, NextOf(n), id, e)', NextOf(n)' <= LastUser[e], n # M => Keeps(Manager, id)'
      PROVE  id \in DOMAIN avail[n] /\ avail[n][id] = e
  <2>1. PICK b : b = NextOf(n)' /\ ListedAt(M, avail, n, b)
    OBVIOUS
  <2>2. Lists(n, b, id, e)'
    BY <1>1, <2>1 DEF Lists, Between
  <2>3. Lists(n, b, id, e)
    BY <2>2, SameLists
  <2>4. n # M => Keeps(M, id)'
    BY <1>1 DEF Keeps
  <2>5. n # M => Keeps(M, id)
    BY <2>4, SameLists
  <2> QED
    BY <1>1, <2>1, <2>3, <2>5 DEF ListedAt
<1>2. Passes' = Passes /\ Requirable' = Requirable
  BY SameLists DEF Requirable, Required
<1>3. \A n \in {Root, M} : \A id \in Requirable : \A e \in Passes :
        Lists(n, NextOf(n), id, e)' /\ NextOf(n)' <= LastUser'[e] /\ (n # M => Keeps(Manager, id)') =>
          id \in DOMAIN AvailableAnalysis'[n] /\ AvailableAnalysis'[n][id] = e
  BY <1>1
<1> QED
  BY <1>2, <1>3 DEF ListedAsScheduled, Root

LEMMA OnlyNow ==
  ASSUME UNCHANGED passes, NEW M, M = Manager', NEW avail, avail = AvailableAnalysis',
         M # Root => \E b : b = NextOf(M)' /\ OnlyAt(avail, M, b)
  PROVE  ListedOnlyAsScheduled'
<1>1. ASSUME M # Root, NEW id \in DOMAIN avail[M]
      PROVE  Lists(Manager, NextOf(Manager), id, AvailableAnalysis[Manager][id])'
  <2>1. PICK b : b = NextOf(M)' /\ OnlyAt(avail, M, b)
    BY <1>1
  <2>2. PICK e : e = avail[M][id]
    OBVIOUS
  <2>3. Lists(M, b, id, e)
    BY <1>1, <2>1, <2>2 DEF OnlyAt
  <2>4. Lists(M, b, id, e)'
    BY <2>3, SameLists
  <2>5. b = NextOf(Manager)'
    BY <2>1 DEF NextOf, At, Position
  <2> QED
    BY <2>2, <2>4, <2>5 DEF Lists, Between
<1> QED
  BY <1>1 DEF ListedOnlyAsScheduled, Root

LEMMA ResolvedNow ==
  ASSUME UNCHANGED passes, NEW impls, impls = AnalysisImpls', impls = [p \in Pass |-> impls[p]],
         \A p \in Passes : \A id \in DOMAIN impls[p] : Serves(p, id, impls[p][id])
  PROVE  ResolvedAsScheduled'
<1>1. ASSUME NEW p \in Passes, NEW id \in DOMAIN impls[p]
      PROVE  Serves(p, id, AnalysisImpls[p][id])'
  <2>1. PICK e : e = impls[p][id] /\ Serves(p, id, e)
    OBVIOUS
  <2>2. Serves(p, id, e)'
    BY <2>1, SameLists
  <2> QED
    BY <2>1, <2>2 DEF Serves, Lists, Between
<1>2. Passes' = Passes /\ Pass' = Pass
  BY SameLists
<1> QED
  BY <1>1, <1>2 DEF ResolvedAsScheduled

\* Before the first pass of a manager nothing has to be listed.
LEMMA NothingBefore ==
  ASSUME Schedules, NEW m \in Managers, NEW M, NEW avail, NEW b, b = At(m, 1)
  PROVE  ListedAt(M, avail, m, b) /\ (DOMAIN avail[m] = {} => OnlyAt(avail, m, b))
BY AtFirst DEF ListedAt, OnlyAt, Lists, Passes

\* The actions of the run, one by one.
LEMMA BeginRunOrder ==
  ASSUME JInv, BeginRun
  PROVE  Runs'
<1>1. /\ Schedules /\ AllServed /\ Root \in Managers
      /\ UNCHANGED <<functionTop, passes, PassVector, LastUser>>
      /\ AnalysisImpls' = [p \in Pass |-> Nothing] /\ running' = None
      /\ top' = 1 /\ function' = (IF functionTop THEN 1 ELSE 0) /\ index' = 1
  BY PassNumbers DEF JInv, IInv, Schedules, BeginRun, buildVars
<1>2. Manager' = Root
  BY <1>1 DEF Manager, Root
<1>3. PICK b : b = At(Root, 1) /\ b = NextOf(Root)'
  BY <1>1 DEF NextOf, At, Position, Root, End
<1>4. PICK avail : avail = AvailableAnalysis'
  OBVIOUS
<1>5. ListedAt(Root, avail, Root, b)
  BY <1>1, <1>3, NothingBefore
<1>6. ListedAsScheduled' /\ ListedOnlyAsScheduled'
  BY <1>1, <1>2, <1>3, <1>4, <1>5, ListedNow, OnlyNow
<1>7. ResolvedAsScheduled'
  <2>1. PICK impls : impls = AnalysisImpls'
    OBVIOUS
  <2>2. impls = [p \in Pass |-> impls[p]] /\ \A p \in Pass : DOMAIN impls[p] = {}
    BY <1>1, <2>1 DEF Nothing
  <2> QED
    BY <1>1, <2>1, <2>2, ResolvedNow DEF Passes
<1> QED
  BY <1>1, <1>6, <1>7 DEF Runs, RunsWithRequired

\* Nothing changes in what is listed, of the manager that begins nothing is.
LEMMA EnterManagerOrder ==
  ASSUME JInv, WellKept, EnterManager
  PROVE  Runs'
<1>1. /\ phase = "run" /\ running' = None
      /\ Index <= Len(PassVector[Manager]) /\ IsManager(PassVector[Manager][Index])
      /\ function' = 1 /\ index' = 1
      /\ UNCHANGED <<functionTop, passes, PassVector, LastUser, AvailableAnalysis, top, AnalysisImpls>>
  BY DEF EnterManager, AtPass, Current, buildVars
<1>2. /\ IInv /\ Schedules /\ Listed /\ Place /\ Results /\ Available /\ AllServed /\ Runs
      /\ Root \in Managers
  BY <1>1, PassNumbers DEF JInv, IInv, Schedules
<1>3. /\ Manager = Root /\ ~functionTop /\ top \in DOMAIN PassVector[Root]
      /\ PassVector[Root][top] \in Pass /\ IsManager(PassVector[Root][top])
      /\ ManagerOf(PassVector[Root][top]) = Root
  <2>1. Index \in DOMAIN PassVector[Manager] /\ Manager \in Managers
    BY <1>1, <1>2, InCharge
  <2>2. PassVector[Manager][Index] \in Pass /\ ManagerOf(PassVector[Manager][Index]) = Manager
    BY <1>2, <2>1 DEF Schedules, Vectors
  <2>3. Manager = Root /\ ~functionTop
    BY <1>1, <1>2, <2>2 DEF Schedules, Managed
  <2>4. function = 0
    BY <1>1, <1>2, <2>3, InCharge
  <2> QED
    BY <1>1, <2>1, <2>2, <2>3, <2>4 DEF Index
<1>4. PICK M : M = PassVector[Root][top]
  OBVIOUS
<1>5. Manager' = M /\ M \in Managers /\ M # Root
  BY <1>1, <1>2, <1>3, <1>4, PassNumbers DEF Manager, Managers, Schedules, Root
<1>6. NextOf(Root) = M /\ NextOf(Root)' = M
  BY <1>1, <1>3, <1>4 DEF NextOf, At, Position, Root
<1>7. PICK b : b = At(M, 1) /\ b = NextOf(M)'
  BY <1>1, <1>5 DEF NextOf, At, Position, Root, End
<1>8. DOMAIN AvailableAnalysis[M] = {}
  <2>1. SUFFICES ASSUME NEW id \in DOMAIN AvailableAnalysis[M]
                 PROVE  FALSE
    OBVIOUS
  <2>2. /\ AvailableAnalysis[M][id] \in Pass /\ ManagerOf(AvailableAnalysis[M][id]) = M
        /\ results[AvailableAnalysis[M][id]] # None
    BY <1>2, <1>5 DEF Listed, Available, Passes
  <2> QED
    BY <1>2, <1>3, <1>5, <2>2 DEF Results
<1>9. PICK avail : avail = AvailableAnalysis' /\ avail = AvailableAnalysis
  BY <1>1
<1>10. ListedAt(M, avail, M, b) /\ OnlyAt(avail, M, b)
  BY <1>2, <1>5, <1>7, <1>8, <1>9, NothingBefore
<1>11. ListedAt(M, avail, Root, M)
  BY <1>2, <1>3, <1>6, <1>9 DEF Runs, ListedAsScheduled, ListedAt
<1>12. ListedAsScheduled' /\ ListedOnlyAsScheduled'
  BY <1>1, <1>5, <1>6, <1>7, <1>9, <1>10, <1>11, ListedNow, OnlyNow
<1>13. ResolvedAsScheduled'
  BY <1>1, <1>2, ResolvedNow DEF Runs, ResolvedAsScheduled
<1> QED
  BY <1>1, <1>2, <1>12, <1>13 DEF Runs, RunsWithRequired

LEMMA NextFunctionOrder ==
  ASSUME JInv, WellKept, NextFunction
  PROVE  Runs'
<1>1. /\ phase = "run" /\ running' = None /\ PastLast /\ ~functionTop
      /\ function \in 1 .. (NumFunctions - 1) /\ function' = function + 1 /\ index' = 1
      /\ UNCHANGED <<functionTop, passes, PassVector, LastUser, AvailableAnalysis, top, AnalysisImpls>>
  BY DEF NextFunction, PastLast, buildVars
<1>2. IInv /\ Schedules /\ Listed /\ Available /\ AllServed /\ Runs /\ Root \in Managers
  BY <1>1, PassNumbers DEF JInv, IInv, Schedules
<1>3. function # 0 /\ function' # 0
  BY <1>1, PassManagerAssumption
<1>4. PICK M : M = Manager
  OBVIOUS
<1>5. M \in Managers /\ M # Root /\ Manager' = M
  BY <1>1, <1>2, <1>3, <1>4, InCharge DEF Manager, Root
<1>6. PICK r : r = NextOf(Root) /\ r = NextOf(Root)'
  BY <1>1 DEF NextOf, At, Position, Root, End
<1>7. PICK b : b = At(M, 1) /\ b = NextOf(M)'
  BY <1>1, <1>5 DEF NextOf, At, Position, Root, End
<1>8. DOMAIN AvailableAnalysis[M] = {}
  <2>1. SUFFICES ASSUME NEW id \in DOMAIN AvailableAnalysis[M]
                 PROVE  FALSE
    OBVIOUS
  <2>2. /\ AvailableAnalysis[M][id] \in Pass /\ ManagerOf(AvailableAnalysis[M][id]) = M
        /\ results[AvailableAnalysis[M][id]] # None
    BY <1>2, <1>5 DEF Listed, Available, Passes
  <2> QED
    BY <1>1, <1>2, <1>5, <2>2, NothingOfManager
<1>9. PICK avail : avail = AvailableAnalysis' /\ avail = AvailableAnalysis
  BY <1>1
<1>10. ListedAt(M, avail, M, b) /\ OnlyAt(avail, M, b)
  BY <1>2, <1>5, <1>7, <1>8, <1>9, NothingBefore
<1>11. ListedAt(M, avail, Root, r)
  BY <1>2, <1>4, <1>6, <1>9 DEF Runs, ListedAsScheduled, ListedAt
<1>12. ListedAsScheduled' /\ ListedOnlyAsScheduled'
  BY <1>1, <1>5, <1>6, <1>7, <1>9, <1>10, <1>11, ListedNow, OnlyNow
<1>13. ResolvedAsScheduled'
  BY <1>1, <1>2, ResolvedNow DEF Runs, ResolvedAsScheduled
<1> QED
  BY <1>1, <1>2, <1>12, <1>13 DEF Runs, RunsWithRequired

LEMMA RunNextFunctionOrder ==
  ASSUME JInv, RunNextFunction
  PROVE  Runs'
<1>1. /\ running' = None /\ functionTop /\ index' = 1 /\ AnalysisImpls' = [p \in Pass |-> Nothing]
      /\ UNCHANGED <<functionTop, passes, PassVector, LastUser>>
  BY DEF RunNextFunction, PastLast, buildVars
<1>2. Schedules /\ AllServed /\ Root \in Managers
  BY PassNumbers DEF JInv, IInv, Schedules
<1>3. Manager' = Root
  BY <1>1 DEF Manager, Root
<1>4. PICK b : b = At(Root, 1) /\ b = NextOf(Root)'
  BY <1>1 DEF NextOf, At, Position, Root, End
<1>5. PICK avail : avail = AvailableAnalysis'
  OBVIOUS
<1>6. ListedAt(Root, avail, Root, b)
  BY <1>2, <1>4, NothingBefore
<1>7. ListedAsScheduled' /\ ListedOnlyAsScheduled'
  BY <1>1, <1>3, <1>4, <1>5, <1>6, ListedNow, OnlyNow
<1>8. ResolvedAsScheduled'
  <2>1. PICK impls : impls = AnalysisImpls'
    OBVIOUS
  <2>2. impls = [p \in Pass |-> impls[p]] /\ \A p \in Pass : DOMAIN impls[p] = {}
    BY <1>1, <2>1 DEF Nothing
  <2> QED
    BY <1>1, <2>1, <2>2, ResolvedNow DEF Passes
<1> QED
  BY <1>1, <1>2, <1>7, <1>8 DEF Runs, RunsWithRequired
------------------------------------------------------------------------------
(* What runs has been handed what it requires. *)

\* Nothing is listed outside Root and the manager in charge.
LEMMA OthersListNothing ==
  ASSUME IInv, phase = "run", NEW n \in Managers, n \notin {Root, Manager}
  PROVE  DOMAIN AvailableAnalysis[n] = {}
<1>1. SUFFICES ASSUME NEW id \in DOMAIN AvailableAnalysis[n]
               PROVE  FALSE
  OBVIOUS
<1>2. /\ AvailableAnalysis[n][id] \in Pass /\ ManagerOf(AvailableAnalysis[n][id]) = n
      /\ results[AvailableAnalysis[n][id]] # None
  BY DEF IInv, Listed, Available, Passes
<1> QED
  BY <1>2 DEF IInv, Results

\* When a pass begins, what it requires is listed, by the pass that serves it.
LEMMA RequiredIsListed ==
  ASSUME JInv, WellKept, AtPass, ~IsManager(Current), NEW p, p = Current, NEW m, m = Manager,
         NEW id \in Required(KindOf(p))
  PROVE  \E e \in Passes :
           /\ Serves(p, id, e) /\ findAnalysisPass(AvailableAnalysis, m, id) = e
           /\ \E n \in {Root, m} : id \in DOMAIN AvailableAnalysis[n] /\ AvailableAnalysis[n][id] = e
<1>1. /\ phase = "run" /\ IInv /\ Schedules /\ Managed /\ Listed /\ AllServed /\ Runs
      /\ Root \in Managers
  BY PassNumbers DEF AtPass, JInv, IInv, Schedules
<1>2. /\ m \in Managers /\ DOMAIN AvailableAnalysis = Managers
      /\ Index \in DOMAIN PassVector[m] /\ p = PassVector[m][Index] /\ Index = Position(m)
  BY <1>1, InCharge DEF AtPass, Current, Listed
<1>3. p \in Passes /\ ManagerOf(p) = m /\ KindOf(p) \in Kind /\ NextOf(m) = p
  <2>1. p \in Passes /\ ManagerOf(p) = m
    BY <1>1, <1>2 DEF Schedules, Vectors, Passes
  <2>2. NextOf(m) = p
    BY <1>2 DEF NextOf, At
  <2> QED
    BY <1>1, <2>1, <2>2, PassKinds
<1>4. id \in Requirable
  BY <1>3, RequiredIDs
<1>5. PICK e \in Passes :
        /\ Serves(p, id, e)
        /\ (IF ManagerOf(e) = ManagerOf(p) THEN p ELSE ManagerOf(p)) <= LastUser[e]
  BY <1>1, <1>3 DEF AllServed
<1>6. CASE Lists(m, p, id, e)
  <2>1. p <= LastUser[e]
    BY <1>3, <1>5, <1>6 DEF Lists
  <2>2. id \in DOMAIN AvailableAnalysis[m] /\ AvailableAnalysis[m][id] = e
    BY <1>1, <1>3, <1>4, <1>6, <2>1 DEF Runs, ListedAsScheduled
  <2>3. findAnalysisPass(AvailableAnalysis, m, id) = e
    BY <2>2 DEF findAnalysisPass
  <2> QED
    BY <1>5, <2>2, <2>3
<1>7. CASE ~Lists(m, p, id, e)
  <2>1. m # Root /\ (\A x \in Pass : ~Lists(m, p, id, x)) /\ Lists(Root, m, id, e)
    BY <1>3, <1>5, <1>7 DEF Serves
  <2>2. ManagerOf(e) = Root /\ m <= LastUser[e] /\ id \in Ids(KindOf(e))
    BY <1>3, <1>5, <2>1 DEF Lists
  <2>3. /\ ~functionTop /\ IsManager(m) /\ NextOf(Root) = m
    <3>1. ~functionTop /\ top \in DOMAIN PassVector[Root] /\ m = PassVector[Root][top]
      BY <1>1, <2>1, InCharge
    <3>2. NextOf(Root) = m
      BY <3>1 DEF NextOf, At, Position
    <3> QED
      BY <1>2, <2>1, <3>1, <3>2 DEF Managers
  <2>4. Keeps(m, id)
    BY <1>3, <1>5, <2>1, <2>2 DEF WellKept, ModuleResultsStay, Passes
  <2>5. id \in DOMAIN AvailableAnalysis[Root] /\ AvailableAnalysis[Root][id] = e
    BY <1>1, <1>4, <2>1, <2>2, <2>3, <2>4 DEF Runs, ListedAsScheduled
  <2>6. id \notin DOMAIN AvailableAnalysis[m]
    <3>1. SUFFICES ASSUME id \in DOMAIN AvailableAnalysis[m]
                   PROVE  FALSE
      OBVIOUS
    <3>2. AvailableAnalysis[m][id] \in Pass
      BY <1>1, <1>2, <3>1 DEF Listed, Passes
    <3>3. Lists(m, p, id, AvailableAnalysis[m][id])
      BY <1>1, <1>3, <2>1, <3>1 DEF Runs, ListedOnlyAsScheduled
    <3> QED
      BY <2>1, <3>2, <3>3
  <2>7. findAnalysisPass(AvailableAnalysis, m, id) = e
    <3> DEFINE known == {n \in DOMAIN AvailableAnalysis : id \in DOMAIN AvailableAnalysis[n]}
    <3>1. known = {Root}
      BY <1>1, <1>2, <2>5, <2>6, OthersListNothing
    <3>2. (CHOOSE x \in known : \A n \in known : x <= n) = Root
      BY <3>1 DEF Root
    <3>3. FindInAll(AvailableAnalysis, id) = e
      BY <2>5, <3>1, <3>2 DEF FindInAll
    <3> QED
      BY <2>6, <3>3 DEF findAnalysisPass
  <2> QED
    BY <1>5, <2>5, <2>7
<1> QED
  BY <1>6, <1>7

\* What a pass is handed serves it.
LEMMA initializeAnalysisImplOrder ==
  ASSUME JInv, WellKept, initializeAnalysisImpl
  PROVE  Runs'
<1>p. PICK p, m, avail : p = Current /\ m = Manager /\ avail = AvailableAnalysis
  OBVIOUS
<1>q. PICK I : I = Required(KindOf(p))
  OBVIOUS
<1>1. /\ phase = "run" /\ AtPass /\ ~IsManager(p) /\ running' = p
      /\ UNCHANGED <<functionTop, passes, PassVector, LastUser, AvailableAnalysis, top, function,
                     index>>
  BY <1>p DEF initializeAnalysisImpl, AtPass, buildVars
<1>2. /\ IInv /\ Schedules /\ Managed /\ Listed /\ AllServed /\ Runs /\ Root \in Managers
  BY <1>1, PassNumbers DEF JInv, IInv, Schedules
<1>3. p \in Passes /\ p \in Pass /\ ManagerOf(p) = m
  <2>1. m \in Managers /\ Index \in DOMAIN PassVector[m] /\ p = PassVector[m][Index]
    BY <1>p, <1>1, <1>2, InCharge DEF AtPass, Current
  <2> QED
    BY <1>1, <1>2, <2>1 DEF Schedules, Vectors, Passes
<1>4. ASSUME NEW id \in I
      PROVE  \E e \in Passes :
           /\ Serves(p, id, e) /\ findAnalysisPass(avail, m, id) = e
           /\ \E n \in {Root, m} : id \in DOMAIN avail[n] /\ avail[n][id] = e
  BY <1>p, <1>q, <1>1, <1>4, RequiredIsListed
<1> DEFINE Found(id) == findAnalysisPass(avail, m, id)
<1>5. \A id \in I : Found(id) # None
  BY <1>2, <1>4, PassNumbers DEF Passes
<1>6. AnalysisImpls' = [AnalysisImpls EXCEPT ![p] =
          [id \in DOMAIN @ \cup I |-> IF id \in DOMAIN @ THEN @[id] ELSE Found(id)]]
  <2>1. {id \in I : Found(id) # None} = I
    BY <1>5
  <2> HIDE DEF Found
  <2>2. AnalysisImpls' = [AnalysisImpls EXCEPT ![p] =
          [id \in DOMAIN @ \cup {i \in I : Found(i) # None} |->
             IF id \in DOMAIN @ THEN @[id] ELSE Found(id)]]
    BY <1>p, <1>q DEF initializeAnalysisImpl, Found
  <2> QED
    BY <2>1, <2>2
<1>7. PICK impls : impls = AnalysisImpls'
  OBVIOUS
<1>8. /\ AnalysisImpls = [q \in Pass |-> AnalysisImpls[q]]
      /\ \A q \in Passes : \A id \in DOMAIN AnalysisImpls[q] : Serves(q, id, AnalysisImpls[q][id])
  BY <1>2 DEF Runs, ResolvedAsScheduled
<1>9. /\ impls = [q \in Pass |-> impls[q]]
      /\ \A q \in Pass \ {p} : impls[q] = AnalysisImpls[q]
      /\ DOMAIN impls[p] = DOMAIN AnalysisImpls[p] \cup I
      /\ \A id \in DOMAIN AnalysisImpls[p] : impls[p][id] = AnalysisImpls[p][id]
      /\ \A id \in I \ DOMAIN AnalysisImpls[p] : impls[p][id] = Found(id)
  <2> HIDE DEF Found
  <2>1. impls[p] = [id \in DOMAIN AnalysisImpls[p] \cup I |->
                      IF id \in DOMAIN AnalysisImpls[p] THEN AnalysisImpls[p][id] ELSE Found(id)]
    BY <1>3, <1>6, <1>7, <1>8
  <2>2. impls = [q \in Pass |-> impls[q]] /\ \A q \in Pass \ {p} : impls[q] = AnalysisImpls[q]
    BY <1>3, <1>6, <1>7, <1>8
  <2> QED
    BY <2>1, <2>2
<1>10. ASSUME NEW q \in Passes, NEW id \in DOMAIN impls[q]
       PROVE  Serves(q, id, impls[q][id])
  <2>1. q \in Pass
    BY DEF Passes
  <2>2. CASE q = p /\ id \notin DOMAIN AnalysisImpls[p]
    BY <1>4, <1>9, <1>10, <2>2
  <2>3. CASE q = p /\ id \in DOMAIN AnalysisImpls[p]
    BY <1>8, <1>9, <2>3
  <2>4. CASE q # p
    BY <1>8, <1>9, <2>1, <2>4
  <2> QED
    BY <2>2, <2>3, <2>4
<1>11. ResolvedAsScheduled'
  BY <1>1, <1>7, <1>9, <1>10, ResolvedNow
<1>12. Manager' = m
  BY <1>p, <1>1 DEF Manager, Root
<1>13. RunsWithRequired'
  <2>1. ASSUME NEW id \in I
        PROVE  /\ id \in DOMAIN impls[p]
               /\ \E n \in {Root, m} : id \in DOMAIN avail[n] /\ avail[n][id] = impls[p][id]
    <3>1. PICK e \in Passes :
           /\ Serves(p, id, e) /\ \E n \in {Root, m} : id \in DOMAIN avail[n] /\ avail[n][id] = e
      BY <1>4
    <3>2. id \in DOMAIN impls[p] /\ Serves(p, id, impls[p][id])
      BY <1>3, <1>9, <1>10
    <3>3. impls[p][id] = e
      BY <1>2, <3>1, <3>2, ServesOne
    <3> QED
      BY <3>1, <3>2, <3>3
  <2>2. I = Required(KindOf(p))'
    BY <1>q, <1>1 DEF Required, KindOf
  <2>3. I = Required(KindOf(running))'
    BY <1>1, <2>2 DEF Required, KindOf
  <2>4. avail = AvailableAnalysis'
    BY <1>p, <1>1
  <2> QED
    BY <1>1, <1>7, <1>12, <2>1, <2>3, <2>4 DEF RunsWithRequired, Root
<1>14. PICK b, r : b = NextOf(m) /\ b = NextOf(m)' /\ r = NextOf(Root) /\ r = NextOf(Root)'
  BY <1>1 DEF NextOf, At, Position, Root, End
<1>15. ListedAt(m, avail, m, b) /\ ListedAt(m, avail, Root, r) /\ (m # Root => OnlyAt(avail, m, b))
  BY <1>p, <1>2, <1>14 DEF Runs, ListedAsScheduled, ListedOnlyAsScheduled, ListedAt, OnlyAt
<1>16. ListedAsScheduled' /\ ListedOnlyAsScheduled'
  <2>1. avail = AvailableAnalysis'
    BY <1>p, <1>1
  <2> QED
    BY <1>1, <1>12, <1>14, <1>15, <2>1, ListedNow, OnlyNow
<1> QED
  BY <1>1, <1>2, <1>11, <1>13, <1>16 DEF Runs
------------------------------------------------------------------------------
(* Passes and managers have run. *)

\* What the schedule lists after the pass has run is listed, and in a manager inside Root
\* only that.
LEMMA RunPassOrder ==
  ASSUME JInv, WellKept, RunPass
  PROVE  Runs'
<1>p. PICK p, m, k, dead, inherited, avail, after, y, r :
        /\ p = running /\ m = Manager /\ k = KindOf(running) /\ dead = collectLastUses(running)
        /\ inherited = (IF function = 0 THEN {} ELSE InheritedAnalysis(Manager))
        /\ avail = AvailableAnalysis /\ after = AvailableAnalysis'
        /\ y = At(m, Index + 1) /\ r = NextOf(Root)
  OBVIOUS
<1>1. /\ phase = "run" /\ running # None /\ running' = None
      /\ UNCHANGED <<functionTop, passes, PassVector, LastUser, function, AnalysisImpls>>
      /\ IF function = 0 THEN top' = top + 1 /\ index' = index
                         ELSE index' = index + 1 /\ top' = top
      /\ after = RunAvailable(avail, m, inherited, p, dead)
  BY <1>p DEF RunPass, buildVars, RunAvailable
<1>2. /\ IInv /\ Schedules /\ Managed /\ LastUsers /\ Listed /\ AllServed /\ Runs /\ Root \in Managers
  BY <1>1, PassNumbers DEF JInv, IInv, Schedules
<1>3. /\ p \in Passes /\ p \in Pass /\ p \in Nat /\ ManagerOf(p) = m /\ KindOf(p) = k /\ ~IsManager(p)
      /\ Index \in DOMAIN PassVector[m] /\ PassVector[m][Index] = p
      /\ dead = {q \in Passes : LastUser[q] = p}
  BY <1>p, <1>1, <1>2, Running, PassKinds DEF Passes
<1>4. /\ m \in Managers /\ Index = Position(m)
      /\ m = Root /\ ~functionTop <=> function = 0
      /\ m # Root => function # 0 /\ ~functionTop
  BY <1>p, <1>1, <1>2, InCharge
<1>5. Manager' = m
  <2>1. Manager' = Manager
    BY <1>1, <1>p, <1>4 DEF Manager, Root
  <2> QED
    BY <1>p, <2>1
<1>6. NextOf(m) = p /\ NextOf(m)' = y
  <2>1. NextOf(m) = p
    BY <1>3, <1>4 DEF NextOf, At
  <2>2. Position(m)' = Index + 1
    BY <1>1, <1>4 DEF Position, Root
  <2>3. At(m, Index + 1) = y
    BY <1>p
  <2> QED
    BY <1>1, <2>1, <2>2, <2>3 DEF NextOf, At, End
<1>7. m # Root => NextOf(Root)' = r
  BY <1>p, <1>1, <1>4 DEF NextOf, At, Position, Root, End
<1>8. p < y /\ y \in Nat
  BY <1>p, <1>2, <1>3, <1>4, AtNext
<1>9. \A id, e : Lists(m, y, id, e) <=>
        \/ e = p /\ id \in Ids(k)
        \/ Lists(m, p, id, e) /\ id \in Preserves[k] /\ id \notin Ids(k)
  BY <1>p, <1>2, <1>3, <1>4, ListsNext
<1>10. MapOn(Managers, avail)
  BY <1>p, <1>2 DEF Listed, MapOn
<1>11. ASSUME NEW id \in Requirable, NEW e \in Passes, Lists(m, y, id, e), y <= LastUser[e]
       PROVE  id \in DOMAIN after[m] /\ after[m][id] = e
  <2>1. ManagerOf(e) = m /\ id \in Ids(KindOf(e)) /\ e <= p /\ e \in Nat
    <3>1. e \in Pass /\ ManagerOf(e) = m /\ e < y /\ id \in Ids(KindOf(e))
      BY <1>11 DEF Lists, Passes
    <3> QED
      BY <1>p, <1>2, <1>3, <1>4, <3>1, AtNext, PassKinds
  <2>2. p < LastUser[e] /\ LastUser[e] \in Nat
    <3>1. LastUser[e] \in Nat
      BY <1>2, PassKinds DEF LastUsers
    <3> QED
      BY <1>3, <1>8, <1>11, <3>1
  <2>3. \A f \in dead : f # e /\ KindOf(f) # id
    BY <1>2, <1>3, <1>8, <1>11, <2>1, <2>2, NotFreed DEF WellKept
  <2>4. CASE e = p /\ id \in Ids(k)
    <3>1. p \notin dead
      BY <2>3, <2>4
    <3>2. (IF id \in Ids(KindOf(p)) THEN p ELSE avail[m][id]) \notin dead
      BY <1>3, <2>4, <3>1
    <3>3. id \in Ids(KindOf(p)) /\ \A f \in dead : KindOf(f) # id
      BY <1>3, <2>3, <2>4
    <3>4. /\ id \in DOMAIN RunAvailable(avail, m, inherited, p, dead)[m]
          /\ RunAvailable(avail, m, inherited, p, dead)[m][id] =
               IF m = m /\ id \in Ids(KindOf(p)) THEN p ELSE avail[m][id]
      BY <1>4, <1>10, <3>2, <3>3, ListedStays
    <3> QED
      BY <1>1, <1>3, <2>4, <3>4
  <2>5. CASE Lists(m, p, id, e) /\ id \in Preserves[k] /\ id \notin Ids(k)
    <3>1. p <= LastUser[e]
      BY <1>3, <2>2
    <3>2. id \in DOMAIN avail[m] /\ avail[m][id] = e
      BY <1>p, <1>2, <1>6, <2>5, <3>1 DEF Runs, ListedAsScheduled
    <3>3. e \notin dead
      BY <2>3
    <3>4. (IF id \in Ids(KindOf(p)) THEN p ELSE avail[m][id]) \notin dead
      BY <1>3, <2>5, <3>2, <3>3
    <3>5. id \in DOMAIN avail[m] /\ id \in Preserves[KindOf(p)] /\ \A f \in dead : KindOf(f) # id
      BY <1>3, <2>3, <2>5, <3>2
    <3>6. /\ id \in DOMAIN RunAvailable(avail, m, inherited, p, dead)[m]
          /\ RunAvailable(avail, m, inherited, p, dead)[m][id] =
               IF m = m /\ id \in Ids(KindOf(p)) THEN p ELSE avail[m][id]
      BY <1>4, <1>10, <3>4, <3>5, ListedStays
    <3> QED
      BY <1>1, <1>3, <2>5, <3>2, <3>6
  <2> QED
    BY <1>9, <1>11, <2>4, <2>5
<1>12. ASSUME m # Root, NEW id \in Requirable, NEW e \in Passes, Lists(Root, r, id, e),
              r <= LastUser[e], Keeps(m, id)
       PROVE  id \in DOMAIN after[Root] /\ after[Root][id] = e
  <2>1. id \in DOMAIN avail[Root] /\ avail[Root][id] = e
    BY <1>p, <1>2, <1>12 DEF Runs, ListedAsScheduled
  <2>2. IsManager(m)
    BY <1>4, <1>12 DEF Managers
  <2>3. id \in Preserves[KindOf(p)]
    BY <1>3, <1>12, <2>2 DEF Keeps
  <2> QED
    BY <1>1, <1>2, <1>4, <1>10, <1>12, <2>1, <2>3, ListedStays
<1>13. ASSUME m # Root, NEW id \in DOMAIN after[m]
       PROVE  Lists(m, y, id, after[m][id])
  <2>1. \/ id \in Ids(k) /\ after[m][id] = p
        \/ /\ id \in DOMAIN avail[m] /\ after[m][id] = avail[m][id]
           /\ id \notin Ids(k) /\ id \in Preserves[k]
    BY <1>1, <1>3, <1>4, <1>10, <1>13, ListedAfter
  <2>2. ASSUME id \in DOMAIN avail[m]
        PROVE  Lists(m, p, id, avail[m][id])
    BY <1>p, <1>2, <1>6, <1>13, <2>2 DEF Runs, ListedOnlyAsScheduled
  <2> QED
    BY <1>9, <2>1, <2>2
<1>14. ListedAsScheduled' /\ ListedOnlyAsScheduled'
  <2>1. ListedAt(m, after, m, y) /\ (m # Root => OnlyAt(after, m, y))
    BY <1>11, <1>13 DEF ListedAt, OnlyAt
  <2>2. m # Root => ListedAt(m, after, Root, r)
    BY <1>12 DEF ListedAt
  <2>3. after = AvailableAnalysis'
    BY <1>p
  <2> QED
    BY <1>1, <1>5, <1>6, <1>7, <2>1, <2>2, <2>3, ListedNow, OnlyNow
<1>15. ResolvedAsScheduled'
  BY <1>1, <1>2, ResolvedNow DEF Runs, ResolvedAsScheduled
<1> QED
  BY <1>1, <1>2, <1>14, <1>15 DEF Runs, RunsWithRequired

\* For Root, a manager has run that keeps what all its passes keep.
LEMMA LeaveManagerOrder ==
  ASSUME JInv, WellKept, LeaveManager
  PROVE  Runs'
<1>p. PICK M, dead, avail, after, y :
        /\ M = Manager /\ dead = collectLastUses(Manager)
        /\ avail = AvailableAnalysis /\ after = AvailableAnalysis' /\ y = At(Root, top + 1)
  OBVIOUS
<1>1. /\ phase = "run" /\ running' = None /\ PastLast /\ ~functionTop
      /\ function = NumFunctions /\ function' = 0 /\ top' = top + 1
      /\ UNCHANGED <<functionTop, passes, PassVector, LastUser, AnalysisImpls, index>>
      /\ after = freePasses(avail, Root, dead)
  BY <1>p DEF LeaveManager, PastLast, buildVars
<1>2. /\ IInv /\ Schedules /\ Managed /\ LastUsers /\ Listed /\ AllServed /\ Runs /\ Root \in Managers
  BY <1>1, PassNumbers DEF JInv, IInv, Schedules
<1>3. /\ M \in Managers /\ M # Root /\ IsManager(M) /\ M \in Pass /\ M \in Nat
      /\ top \in DOMAIN PassVector[Root] /\ M = PassVector[Root][top] /\ ManagerOf(M) = Root
  <2>1. M \in Managers /\ M # Root
    BY <1>p, <1>1, <1>2, InCharge, PassManagerAssumption
  <2> QED
    BY <1>p, <1>1, <1>2, <2>1, InCharge, PassNumbers DEF Managers
<1>4. dead = {q \in Passes : LastUser[q] = M}
  BY <1>p, <1>2 DEF collectLastUses, LastUsers
<1>5. Manager' = Root
  BY <1>1 DEF Manager, Root
<1>6. NextOf(Root) = M /\ NextOf(Root)' = y
  BY <1>p, <1>1, <1>3 DEF NextOf, At, Position, Root, End
<1>7. M < y /\ y \in Nat
  BY <1>p, <1>2, <1>3, AtNext
<1>8. \A id, e : Lists(Root, y, id, e) <=> Lists(Root, M, id, e) /\ Keeps(M, id)
  BY <1>p, <1>2, <1>3, ListsNext
<1>9. ASSUME NEW id \in Requirable, NEW e \in Passes, Lists(Root, y, id, e), y <= LastUser[e]
      PROVE  id \in DOMAIN after[Root] /\ after[Root][id] = e
  <2>1. Lists(Root, M, id, e) /\ Keeps(M, id)
    BY <1>8, <1>9
  <2>2. ManagerOf(e) = Root /\ id \in Ids(KindOf(e)) /\ e <= M
    BY <1>2, <1>3, <2>1, PassKinds DEF Lists
  <2>3. M < LastUser[e] /\ M <= LastUser[e]
    <3>1. LastUser[e] \in Nat
      BY <1>2, PassKinds DEF LastUsers
    <3> QED
      BY <1>3, <1>7, <1>9, <3>1
  <2>4. \A f \in dead : f # e /\ KindOf(f) # id
    BY <1>2, <1>3, <1>4, <1>7, <1>9, <2>2, <2>3, NotFreed DEF WellKept
  <2>5. id \in DOMAIN avail[Root] /\ avail[Root][id] = e
    BY <1>p, <1>2, <1>6, <2>1, <2>3 DEF Runs, ListedAsScheduled
  <2>6. Root \in DOMAIN avail /\ e \notin dead
    BY <1>p, <1>2, <2>4 DEF Listed
  <2> QED
    BY <1>1, <2>4, <2>5, <2>6, FreeingKeeps
<1>10. ListedAsScheduled' /\ ListedOnlyAsScheduled'
  <2>1. ListedAt(Root, after, Root, y)
    BY <1>9 DEF ListedAt
  <2>2. after = AvailableAnalysis'
    BY <1>p
  <2> QED
    BY <1>1, <1>5, <1>6, <2>1, <2>2, ListedNow, OnlyNow
<1>11. ResolvedAsScheduled'
  BY <1>1, <1>2, ResolvedNow DEF Runs, ResolvedAsScheduled
<1> QED
  BY <1>1, <1>2, <1>10, <1>11 DEF Runs, RunsWithRequired

LEMMA StutterOrder ==
  ASSUME JInv, UNCHANGED vars
  PROVE  /\ phase = "build" /\ ~unreachable => ListedWhileBuilding'
         /\ phase = "run" /\ WellKept => Runs'
<1>1. UNCHANGED <<functionTop, phase, calls, passes, PassVector, LastUser, activeStack, unreachable,
                  AvailableAnalysis, top, function, index, AnalysisImpls, running>>
  BY DEF vars, buildVars, runVars
<1>2. ASSUME phase = "build", ~unreachable
      PROVE  ListedWhileBuilding'
  BY <1>1, <1>2, SameListed DEF JInv
<1>3. ASSUME phase = "run", WellKept
      PROVE  Runs'
  <2>1. IInv /\ Runs
    BY <1>3 DEF JInv
  <2>2. PICK m, avail : m = Manager /\ avail = AvailableAnalysis
    OBVIOUS
  <2>3. Manager' = m /\ AvailableAnalysis' = avail
    BY <1>1, <2>2 DEF Manager, Root
  <2>4. PICK b, r : b = NextOf(m) /\ b = NextOf(m)' /\ r = NextOf(Root) /\ r = NextOf(Root)'
    BY <1>1 DEF NextOf, At, Position, Root, End
  <2>5. ListedAt(m, avail, m, b) /\ ListedAt(m, avail, Root, r) /\ (m # Root => OnlyAt(avail, m, b))
    BY <2>1, <2>2, <2>4 DEF Runs, ListedAsScheduled, ListedOnlyAsScheduled, ListedAt, OnlyAt
  <2>6. ListedAsScheduled' /\ ListedOnlyAsScheduled'
    BY <1>1, <2>3, <2>4, <2>5, ListedNow, OnlyNow
  <2>7. ResolvedAsScheduled'
    BY <1>1, <2>1, ResolvedNow DEF Runs, ResolvedAsScheduled
  <2>8. RunsWithRequired'
    BY <1>1, <2>1, <2>2, <2>3 DEF Runs, RunsWithRequired, Required, KindOf, Root
  <2> QED
    BY <2>6, <2>7, <2>8 DEF Runs
<1> QED
  BY <1>2, <1>3

LEMMA InitOrder ==
  ASSUME Init
  PROVE  JInv
<1>1. /\ phase = "build" /\ calls = <<>> /\ Pass = {} /\ Passes = {} /\ OnStack = {Root}
      /\ DOMAIN AvailableAnalysis[Root] = {} /\ running = None
  <2>1. Pass = {} /\ Passes = {}
    BY DEF Init, Pass, Passes
  <2>2. activeStack = <<Root>> /\ AvailableAnalysis[Root] = Nothing
    BY DEF Init
  <2> QED
    BY <2>1, <2>2 DEF Init, OnStack, Nothing
<1>2. AllServed
  BY <1>1 DEF AllServed
<1>3. ListedWhileBuilding
  BY <1>1 DEF ListedWhileBuilding
<1> QED
  BY <1>1, <1>2, <1>3, InitOK DEF JInv

LEMMA NextKeepsOrder ==
  ASSUME JInv, [Next]_vars
  PROVE  JInv'
<1>1. IInv'
  BY NextKeeps DEF JInv
<1>2. CASE AddPass
  <2>1. phase' = "build" /\ running' = None
    BY <1>2 DEF AddPass, JInv, runVars
  <2> QED
    BY <1>1, <1>2, <2>1, SameScheduleOrder DEF JInv
<1>3. CASE Schedule
  <2>1. phase = "build" /\ phase' = "build" /\ running' = running
    BY <1>3 DEF Schedule, RequiredIsThere, ScheduleRequired, CheckAgain, AddModulePass,
       NewFPPassManager, AddFunctionPass, Scheduling, runVars
  <2>2. AllServed' /\ (~unreachable' => ListedWhileBuilding')
    BY <1>3, SameScheduleOrder, AddModulePassOrder, AddFunctionPassOrder, NewFPPassManagerOrder
    DEF Schedule
  <2> QED
    BY <1>1, <2>1, <2>2 DEF JInv
<1>4. CASE BeginRun \/ RunStep \/ UNCHANGED vars
  <2>1. AllServed' /\ (WellKept' <=> WellKept)
    <3>1. UNCHANGED <<passes, LastUser>>
      BY <1>4 DEF BeginRun, RunStep, EnterManager, initializeAnalysisImpl, RunPass, NextFunction,
         LeaveManager, RunNextFunction, EndRun, vars, buildVars
    <3> QED
      BY <3>1, SameOrder, SameWellKept DEF JInv
  <2>2. CASE BeginRun
    <3>1. phase' = "run"
      BY <2>2 DEF BeginRun
    <3> QED
      BY <1>1, <2>1, <2>2, <3>1, BeginRunOrder DEF JInv
  <2>3. CASE EndRun
    <3>1. phase' = "done" /\ running' = None
      BY <2>3 DEF EndRun, PastLast, runVars
    <3> QED
      BY <1>1, <2>1, <3>1 DEF JInv
  <2>4. CASE RunStep /\ ~EndRun
    <3>1. phase' = "run"
      BY <2>4 DEF RunStep, EnterManager, initializeAnalysisImpl, RunPass, NextFunction, LeaveManager,
         RunNextFunction, AtPass, PastLast
    <3>2. WellKept => Runs'
      BY <2>4, EnterManagerOrder, initializeAnalysisImplOrder, RunPassOrder, NextFunctionOrder,
         LeaveManagerOrder, RunNextFunctionOrder DEF RunStep
    <3> QED
      BY <1>1, <2>1, <3>1, <3>2 DEF JInv
  <2>5. CASE UNCHANGED vars
    <3>1. phase' = phase /\ unreachable' = unreachable /\ running' = running
      BY <2>5 DEF vars, buildVars, runVars
    <3> QED
      BY <1>1, <2>1, <2>5, <3>1, StutterOrder DEF JInv
  <2> QED
    BY <1>4, <2>2, <2>3, <2>4, <2>5
<1> QED
  BY <1>2, <1>3, <1>4 DEF Next

\* What runs has been handed what is listed, and what is listed is ready.
LEMMA RunsReady ==
  ASSUME JInv, WellKept
  PROVE  RequiredAreReady
<1>1. SUFFICES ASSUME running # None, NEW id \in Required(KindOf(running)), phase = "run"
               PROVE  id \in DOMAIN AnalysisImpls[running] /\ IsReady(AnalysisImpls[running][id], id)
  BY DEF JInv, RequiredAreReady
<1>2. id \in DOMAIN AnalysisImpls[running]
  BY <1>1 DEF JInv, Runs, RunsWithRequired
<1>3. PICK n \in {Root, Manager} :
        id \in DOMAIN AvailableAnalysis[n] /\ AvailableAnalysis[n][id] = AnalysisImpls[running][id]
  BY <1>1 DEF JInv, Runs, RunsWithRequired
<1> QED
  BY <1>1, <1>2, <1>3, ListedAreReady DEF JInv

\* JInv is inductive.
LEMMA OrderInvariance == Spec => []JInv
<1>1. Init => JInv
  BY InitOrder
<1>2. JInv /\ [Next]_vars => JInv'
  BY NextKeepsOrder
<1> QED
  BY <1>1, <1>2, PTL DEF Spec

\* Whatever the passes require, preserve and implement: every pass finds what it requires
\* when it runs, the pass its resolver names has a result, of the function at hand, that
\* nothing run since has invalidated and that is not freed, unless the schedule has one of
\* two weaknesses: a pass made again that outlives the one before it, or a result in Root
\* that a function pass displaces.
THEOREM RequiredAreEverProvided == Spec => []RequiredAreProvided
<1>1. JInv => RequiredAreProvided
  BY RunsReady DEF RequiredAreProvided
<1> QED
  BY <1>1, OrderInvariance, PTL
==============================================================================
