------------------------- MODULE RegAllocFastProofs -------------------------
(***************************************************************************)
(* The fast register allocator, for every target, every allocation order   *)
(* and every function. Of the registers: PhysRegState and LiveVirtRegs are *)
(* inverse, and of two overlapping registers at most one is in use. Of the *)
(* code: every operand gets a register, and every allocatable register it  *)
(* writes is recorded for the prologue.                                    *)
(*                                                                         *)
(* The allocator's operations are operators on its state, and so are the   *)
(* lemmas: each says that an operation takes registers that are in order   *)
(* to registers that are in order.                                         *)
(***************************************************************************)
EXTENDS RegAllocFast, TLAPS, FiniteSetTheorems

\* RegInv of a state that is a value: what the operations keep.
Fields(ra) ==
  ra = [PhysRegState |-> ra.PhysRegState, LiveVirtRegs |-> ra.LiveVirtRegs,
        UsedInInstr |-> ra.UsedInInstr, StackSlots |-> ra.StackSlots, MBB |-> ra.MBB]

StateOK(state) == state \in [PhysReg -> VirtReg \cup {Disabled, Free, Reserved}]

LiveOK(live) ==
  /\ live = [v \in DOMAIN live |-> live[v]]
  /\ DOMAIN live \subseteq VirtReg
  /\ \A v \in DOMAIN live : LiveReg(live[v]) /\ live[v].PhysReg \in PhysReg

MapsAgree(state, live) ==
  /\ \A p \in PhysReg : state[p] \in VirtReg =>
       state[p] \in DOMAIN live /\ live[state[p]].PhysReg = p
  /\ \A v \in DOMAIN live : state[live[v].PhysReg] = v

Apart(state) ==
  \A p, q \in PhysReg : q \in Aliases(p) => state[p] = Disabled \/ state[q] = Disabled

InOrder(ra) ==
  /\ Fields(ra)
  /\ StateOK(ra.PhysRegState)
  /\ LiveOK(ra.LiveVirtRegs)
  /\ MapsAgree(ra.PhysRegState, ra.LiveVirtRegs)
  /\ Apart(ra.PhysRegState)

-----------------------------------------------------------------------------
\* Every set of natural numbers up to N that is not empty has a least element:
\* there is a first register of those a loop looks for.
LEMMA Least ==
  ASSUME NEW N \in Nat, NEW I \in SUBSET (1 .. N), I # {}
  PROVE  \E m \in I : \A n \in I : m <= n
<1> DEFINE Upto(m) == {x \in 1 .. N : x <= m}
           R == StrictSubsetOrdering(1 .. N)
           T == {Upto(m) : m \in I}
<1>1. IsFiniteSet(1 .. N)
  BY FS_Interval
<1>2. T \subseteq FiniteSubsetsOf(1 .. N)
  BY <1>1, FS_Subset DEF FiniteSubsetsOf
<1>3. T # {}
  OBVIOUS
<1>4. IsWellFoundedOn(R, FiniteSubsetsOf(1 .. N))
  BY <1>1, FS_StrictSubsetOrderingWellFounded
<1> HIDE DEF R, T
<1>5. PICK X \in T : \A Y \in T : <<Y, X>> \notin R
  BY <1>2, <1>3, <1>4, WFMin
<1>6. PICK m \in I : X = Upto(m)
  BY DEF T
<1>7. ASSUME NEW n \in I, n < m PROVE FALSE
  <2>1. Upto(n) \subseteq Upto(m) /\ m \in Upto(m) /\ m \notin Upto(n)
    BY <1>7
  <2>2. <<Upto(n), Upto(m)>> \in R
    BY <2>1 DEF R, StrictSubsetOrdering
  <2>3. Upto(n) \in T
    BY DEF T
  <2>4. QED
    BY <2>2, <2>3, <1>5, <1>6
<1>8. QED
  BY <1>7

\* The states that are not registers are different from each other.
LEMMA StatesDiffer ==
  /\ Disabled # Free /\ Disabled # Reserved /\ Free # Reserved
  /\ NoReg \notin PhysReg
  /\ Disabled \notin VirtReg /\ Free \notin VirtReg /\ Reserved \notin VirtReg
<1>1. \A a, b, c, d : Cardinality({a, b, c, d}) = 4 => a # b /\ a # c /\ b # c
  <2> SUFFICES ASSUME NEW a, NEW b, NEW c, NEW d, a = b \/ a = c \/ b = c
               PROVE  Cardinality({a, b, c, d}) # 4
    OBVIOUS
  <2>1. PICK x, y : {a, b, c, d} = {x, y} \cup {d}
    <3>1. CASE a = b
      BY <3>1
    <3>2. CASE a = c
      BY <3>2
    <3>3. CASE b = c
      BY <3>3
    <3>4. QED
      BY <3>1, <3>2, <3>3
  <2>2. IsFiniteSet({}) /\ Cardinality({}) = 0
    BY FS_EmptySet
  <2>3. IsFiniteSet({x}) /\ Cardinality({x}) <= 1
    BY FS_Singleton
  <2>4. IsFiniteSet({x, y}) /\ Cardinality({x, y}) <= 2
    <3>1. {x, y} = {x} \cup {y}
      OBVIOUS
    <3>2. Cardinality({x} \cup {y}) = IF y \in {x} THEN Cardinality({x}) ELSE Cardinality({x}) + 1
      BY <2>3, FS_AddElement
    <3>3. IsFiniteSet({x} \cup {y})
      BY <2>3, FS_AddElement
    <3>4. Cardinality({x}) \in Nat
      BY <2>3, FS_CardinalityType
    <3>5. QED
      BY <2>3, <3>1, <3>2, <3>3, <3>4
  <2>5. Cardinality({x, y} \cup {d}) = IF d \in {x, y} THEN Cardinality({x, y}) ELSE Cardinality({x, y}) + 1
    BY <2>4, FS_AddElement
  <2>6. Cardinality({x, y}) \in Nat
    BY <2>4, FS_CardinalityType
  <2>7. QED
    BY <2>1, <2>4, <2>5, <2>6
<1>2. QED
  BY <1>1, RegAllocAssumption

\* Assigning to a member leaves the others as they are.
LEMMA SetState ==
  ASSUME NEW ra, Fields(ra), NEW x
  PROVE  /\ Fields([ra EXCEPT !.PhysRegState = x])
         /\ [ra EXCEPT !.PhysRegState = x].PhysRegState = x
         /\ [ra EXCEPT !.PhysRegState = x].LiveVirtRegs = ra.LiveVirtRegs
BY DEF Fields

LEMMA SetLive ==
  ASSUME NEW ra, Fields(ra), NEW x
  PROVE  /\ Fields([ra EXCEPT !.LiveVirtRegs = x])
         /\ [ra EXCEPT !.LiveVirtRegs = x].PhysRegState = ra.PhysRegState
         /\ [ra EXCEPT !.LiveVirtRegs = x].LiveVirtRegs = x
BY DEF Fields

LEMMA SetSlots ==
  ASSUME NEW ra, Fields(ra), NEW x
  PROVE  /\ Fields([ra EXCEPT !.StackSlots = x])
         /\ [ra EXCEPT !.StackSlots = x].PhysRegState = ra.PhysRegState
         /\ [ra EXCEPT !.StackSlots = x].LiveVirtRegs = ra.LiveVirtRegs
BY DEF Fields

LEMMA SetUsed ==
  ASSUME NEW ra, Fields(ra), NEW x
  PROVE  /\ Fields([ra EXCEPT !.UsedInInstr = x])
         /\ [ra EXCEPT !.UsedInInstr = x].PhysRegState = ra.PhysRegState
         /\ [ra EXCEPT !.UsedInInstr = x].LiveVirtRegs = ra.LiveVirtRegs
BY DEF Fields

LEMMA SetCode ==
  ASSUME NEW ra, Fields(ra), NEW x
  PROVE  /\ Fields([ra EXCEPT !.MBB = x])
         /\ [ra EXCEPT !.MBB = x].PhysRegState = ra.PhysRegState
         /\ [ra EXCEPT !.MBB = x].LiveVirtRegs = ra.LiveVirtRegs
BY DEF Fields

-----------------------------------------------------------------------------
(* Giving registers up.                                                    *)

\* Flagging a kill changes the code only.
LEMMA KillFlaggedKeeps ==
  ASSUME NEW ra, Fields(ra), NEW V
  PROVE  /\ Fields(KillFlagged(ra, V))
         /\ KillFlagged(ra, V).PhysRegState = ra.PhysRegState
         /\ KillFlagged(ra, V).LiveVirtRegs = ra.LiveVirtRegs
BY DEF KillFlagged, Fields

\* What is left when registers of V are killed.
Freed(state, V) == [p \in PhysReg |-> IF state[p] \in V THEN Free ELSE state[p]]

LEMMA KillVirtRegs ==
  ASSUME NEW ra, Fields(ra), NEW V
  PROVE  /\ Fields(killVirtRegs(ra, V))
         /\ killVirtRegs(ra, V).PhysRegState = Freed(ra.PhysRegState, V)
         /\ killVirtRegs(ra, V).LiveVirtRegs = Drop(ra.LiveVirtRegs, V)
<1> DEFINE f == KillFlagged(ra, V)
<1>1. Fields(f) /\ f.PhysRegState = ra.PhysRegState /\ f.LiveVirtRegs = ra.LiveVirtRegs
  BY KillFlaggedKeeps
<1>2. killVirtRegs(ra, V) =
        [f EXCEPT !.PhysRegState = [p \in PhysReg |-> IF @[p] \in V THEN Free ELSE @[p]],
                  !.LiveVirtRegs = Drop(@, V)]
  BY DEF killVirtRegs
<1> HIDE DEF f
<1>3. QED
  BY <1>1, <1>2 DEF Fields, Freed

\* Registers that are freed stay in order: an entry goes with its register, and
\* what was in use was the only one of its aliases in use.
LEMMA FreedInOrder ==
  ASSUME NEW state, NEW live, NEW V \in SUBSET VirtReg,
         StateOK(state), LiveOK(live), MapsAgree(state, live), Apart(state)
  PROVE  /\ StateOK(Freed(state, V)) /\ LiveOK(Drop(live, V))
         /\ MapsAgree(Freed(state, V), Drop(live, V)) /\ Apart(Freed(state, V))
<1>1. StateOK(Freed(state, V))
  BY DEF StateOK, Freed
<1>2. LiveOK(Drop(live, V))
  BY DEF LiveOK, Drop
<1>3. MapsAgree(Freed(state, V), Drop(live, V))
  BY StatesDiffer DEF MapsAgree, Freed, Drop, LiveOK, StateOK
<1>4. Apart(Freed(state, V))
  BY StatesDiffer DEF Apart, Freed
<1>5. QED
  BY <1>1, <1>2, <1>3, <1>4

LEMMA KillKeepsOrder ==
  ASSUME NEW ra, InOrder(ra), NEW V \in SUBSET VirtReg
  PROVE  InOrder(killVirtRegs(ra, V))
BY KillVirtRegs, FreedInOrder DEF InOrder

\* A spill stores what is dirty, and kills.
LEMMA SpillVirtRegs ==
  ASSUME NEW ra, InOrder(ra), NEW mi, NEW V \in SUBSET VirtReg
  PROVE  /\ InOrder(spillVirtRegs(ra, mi, V))
         /\ spillVirtRegs(ra, mi, V).PhysRegState = Freed(ra.PhysRegState, V)
         /\ DOMAIN spillVirtRegs(ra, mi, V).LiveVirtRegs = DOMAIN ra.LiveVirtRegs \ V
<1> DEFINE dirty == {v \in V : ra.LiveVirtRegs[v].Dirty}
           spillKill == {v \in dirty : ra.LiveVirtRegs[v].LastUse # mi}
           stores == {[virt |-> v, phys |-> ra.LiveVirtRegs[v].PhysReg, load |-> FALSE,
                       kill |-> v \in spillKill] : v \in dirty}
           killers == [v \in Live(ra) |-> IF v \in spillKill
                         THEN [ra.LiveVirtRegs[v] EXCEPT !.LastUse = 0] ELSE ra.LiveVirtRegs[v]]
           code == [ra.MBB EXCEPT ![mi].moves = IF stores = {} THEN @ ELSE Append(@, stores)]
           stored == [ra EXCEPT !.StackSlots = @ \cup dirty, !.MBB = code,
                                !.LiveVirtRegs = killers]
<1>1. spillVirtRegs(ra, mi, V) = killVirtRegs(stored, V)
  BY DEF spillVirtRegs
<1>2. DOMAIN killers = DOMAIN ra.LiveVirtRegs /\ killers = [v \in DOMAIN killers |-> killers[v]]
  BY DEF Live
<1>3. \A v \in DOMAIN ra.LiveVirtRegs :
        LiveReg(killers[v]) /\ killers[v].PhysReg = ra.LiveVirtRegs[v].PhysReg
  <2> SUFFICES ASSUME NEW v \in DOMAIN ra.LiveVirtRegs
               PROVE  LiveReg(killers[v]) /\ killers[v].PhysReg = ra.LiveVirtRegs[v].PhysReg
    OBVIOUS
  <2> HIDE DEF spillKill
  <2>1. LiveReg(ra.LiveVirtRegs[v])
    BY DEF InOrder, LiveOK
  <2>2. killers[v] \in {ra.LiveVirtRegs[v], [ra.LiveVirtRegs[v] EXCEPT !.LastUse = 0]}
    BY DEF Live
  <2> HIDE DEF killers
  <2>3. QED
    BY <2>1, <2>2 DEF LiveReg
<1> HIDE DEF code, dirty, killers
<1>4. Fields(stored) /\ stored.PhysRegState = ra.PhysRegState /\ stored.LiveVirtRegs = killers
  <2> DEFINE s1 == [ra EXCEPT !.StackSlots = @ \cup dirty]
             s2 == [s1 EXCEPT !.MBB = code]
             s3 == [s2 EXCEPT !.LiveVirtRegs = killers]
  <2>1. stored = s3
    OBVIOUS
  <2> HIDE DEF stored
  <2>2. Fields(s1) /\ s1.PhysRegState = ra.PhysRegState
    BY SetSlots DEF InOrder
  <2> HIDE DEF s1
  <2>3. Fields(s2) /\ s2.PhysRegState = ra.PhysRegState
    BY SetCode, <2>2
  <2> HIDE DEF s2
  <2>4. Fields(s3) /\ s3.PhysRegState = ra.PhysRegState /\ s3.LiveVirtRegs = killers
    BY SetLive, <2>3
  <2> HIDE DEF s3
  <2>5. QED
    BY <2>1, <2>4
<1>5. LiveOK(killers) /\ MapsAgree(ra.PhysRegState, killers)
  BY <1>2, <1>3 DEF LiveOK, MapsAgree, InOrder
<1> HIDE DEF stored
<1>6. InOrder(stored)
  BY <1>4, <1>5 DEF InOrder
<1>7. InOrder(spillVirtRegs(ra, mi, V))
  BY <1>1, <1>6, KillKeepsOrder
<1>8. killVirtRegs(stored, V).PhysRegState = Freed(stored.PhysRegState, V)
      /\ killVirtRegs(stored, V).LiveVirtRegs = Drop(stored.LiveVirtRegs, V)
  BY <1>4, KillVirtRegs
<1>9. DOMAIN Drop(killers, V) = DOMAIN ra.LiveVirtRegs \ V
  BY <1>2 DEF Drop
<1>10. QED
  BY <1>1, <1>4, <1>7, <1>8, <1>9

-----------------------------------------------------------------------------
(* Taking registers. *)

\* A register defined for an instruction is moved out of the disabled state only
\* when its aliases are: the loop that returns at a super-register in use has met
\* every alias in use, because nothing that overlaps the super-register is.
LEMMA ReachedAreInUse ==
  ASSUME NEW state, StateOK(state), Apart(state), NEW p \in PhysReg,
         NEW q \in Aliases(p), state[q] # Disabled
  PROVE  q \in Until(p, {r \in PhysReg \ {r \in PhysReg : state[r] \in {Disabled}} :
                           isSuperRegister(p, r)})
<1> DEFINE Last == {r \in PhysReg \ {r \in PhysReg : state[r] \in {Disabled}} :
                      isSuperRegister(p, r)}
<1>1. PICK j \in DOMAIN AliasSet[p] : q = AliasSet[p][j]
  BY DEF Aliases
<1>2. q \in PhysReg /\ UnitsOf[p] \cap UnitsOf[q] # {} /\ DOMAIN AliasSet[p] = 1 .. Len(AliasSet[p])
  BY <1>1, MachineAssumption
<1>3. ASSUME NEW k \in 1 .. (j - 1), AliasSet[p][k] \in Last
      PROVE  FALSE
  <2> DEFINE r == AliasSet[p][k]
  <2>1. r \in PhysReg /\ state[r] # Disabled /\ UnitsOf[p] \subseteq UnitsOf[r]
    BY <1>3 DEF isSuperRegister
  <2>2. k \in DOMAIN AliasSet[p] /\ k # j
    BY <1>1, <1>2
  <2>3. r # q
    BY <1>1, <2>2, MachineAssumption
  <2>4. UnitsOf[r] \cap UnitsOf[q] # {}
    BY <1>2, <2>1
  <2>5. q \in Aliases(r)
    BY <1>2, <2>1, <2>3, <2>4, MachineAssumption
  <2>6. QED
    BY <1>2, <2>1, <2>5 DEF Apart
<1>4. QED
  BY <1>1, <1>3 DEF Until

\* A register that is nobody's takes a state; what else changes becomes disabled.
Retaken(state, p, R, new) ==
  [q \in PhysReg |-> IF q = p THEN new ELSE IF q \in R THEN Disabled ELSE state[q]]

LEMMA RetakenInOrder ==
  ASSUME NEW state, NEW live, StateOK(state), LiveOK(live), MapsAgree(state, live), Apart(state),
         NEW p \in PhysReg, NEW R \in SUBSET PhysReg, NEW new \in {Free, Reserved},
         state[p] \notin VirtReg, \A q \in R : state[q] \notin VirtReg,
         \A q \in Aliases(p) : q \in R \/ state[q] = Disabled
  PROVE  /\ StateOK(Retaken(state, p, R, new)) /\ MapsAgree(Retaken(state, p, R, new), live)
         /\ Apart(Retaken(state, p, R, new))
<1> DEFINE s == Retaken(state, p, R, new)
<1>1. StateOK(s)
  BY DEF StateOK, Retaken
<1>2. MapsAgree(s, live)
  BY StatesDiffer DEF MapsAgree, LiveOK, Retaken
<1>3. \A q, r \in PhysReg : r \in Aliases(q) => q # r /\ q \in Aliases(r)
  BY MachineAssumption
<1>4. Apart(s)
  BY <1>3 DEF Apart, Retaken
<1>5. QED
  BY <1>1, <1>2, <1>4

\* definePhysReg keeps the registers in order, takes p from whom it was, and gives
\* nobody a register.
LEMMA DefinePhys ==
  ASSUME NEW ra, InOrder(ra), NEW mi, NEW p \in PhysReg, NEW new \in {Free, Reserved}
  PROVE  /\ InOrder(definePhysReg(ra, mi, p, new))
         /\ definePhysReg(ra, mi, p, new).PhysRegState[p] = new
         /\ DOMAIN definePhysReg(ra, mi, p, new).LiveVirtRegs \subseteq DOMAIN ra.LiveVirtRegs
<1> DEFINE state == ra.PhysRegState
<1>1. StateOK(state) /\ Apart(state) /\ new \notin VirtReg /\ Disabled \notin VirtReg
  BY StatesDiffer DEF InOrder
<1>2. CASE state[p] # Disabled
  <2> DEFINE V == Held(ra, {p})
             x == spillVirtRegs(ra, mi, V)
             y == [x EXCEPT !.PhysRegState = [@ EXCEPT ![p] = new]]
             z == [y EXCEPT !.UsedInInstr = @ \cup {p}]
  <2>1. V \in SUBSET VirtReg /\ (state[p] \in VirtReg => state[p] \in V)
    BY DEF Held
  <2>2. definePhysReg(ra, mi, p, new) = z
    BY <1>2 DEF definePhysReg
  <2>3. /\ InOrder(x) /\ x.PhysRegState = Freed(state, V)
        /\ DOMAIN x.LiveVirtRegs = DOMAIN ra.LiveVirtRegs \ V
    BY <2>1, SpillVirtRegs
  <2> HIDE DEF x
  <2>4. /\ Fields(y) /\ y.PhysRegState = [x.PhysRegState EXCEPT ![p] = new]
        /\ y.LiveVirtRegs = x.LiveVirtRegs
    BY <2>3, SetState DEF InOrder
  <2> HIDE DEF y
  <2>5. /\ Fields(z) /\ z.PhysRegState = y.PhysRegState /\ z.LiveVirtRegs = y.LiveVirtRegs
    BY <2>4, SetUsed
  <2> HIDE DEF z, V
  <2>6. /\ [x.PhysRegState EXCEPT ![p] = new] = Retaken(x.PhysRegState, p, {}, new)
        /\ x.PhysRegState[p] \notin VirtReg
        /\ \A q \in Aliases(p) : x.PhysRegState[q] = Disabled
    <3>1. x.PhysRegState \in [PhysReg -> VirtReg \cup {Disabled, Free, Reserved}]
      BY <2>3 DEF InOrder, StateOK
    <3>2. x.PhysRegState[p] \notin VirtReg /\ x.PhysRegState[p] # Disabled
      <4>1. x.PhysRegState[p] = IF state[p] \in V THEN Free ELSE state[p]
        BY <2>3 DEF Freed
      <4>2. QED
        BY <1>2, <2>1, <4>1, StatesDiffer
    <3>3. \A q \in Aliases(p) : q \in PhysReg
      BY MachineAssumption DEF Aliases
    <3>4. \A q \in Aliases(p) : x.PhysRegState[q] = Disabled
      BY <3>2, <3>3, <2>3 DEF InOrder, Apart
    <3>5. QED
      BY <3>1, <3>2, <3>4 DEF Retaken
  <2>7. StateOK(y.PhysRegState) /\ MapsAgree(y.PhysRegState, x.LiveVirtRegs) /\ Apart(y.PhysRegState)
    <3>1. /\ StateOK(x.PhysRegState) /\ LiveOK(x.LiveVirtRegs)
          /\ MapsAgree(x.PhysRegState, x.LiveVirtRegs) /\ Apart(x.PhysRegState)
      BY <2>3 DEF InOrder
    <3>2. QED
      BY <2>4, <2>6, <3>1, RetakenInOrder
  <2>8. InOrder(z)
    BY <2>3, <2>4, <2>5, <2>7 DEF InOrder
  <2>9. z.PhysRegState[p] = new
    BY <2>4, <2>5, <2>6 DEF Retaken
  <2>10. QED
    BY <2>2, <2>3, <2>4, <2>5, <2>8, <2>9
<1>3. CASE state[p] = Disabled
  <2> DEFINE R == Until(p, {q \in PhysReg \ InState(ra, {Disabled}) : isSuperRegister(p, q)})
             V == Held(ra, R)
             x == spillVirtRegs(ra, mi, V)
             y == [x EXCEPT !.PhysRegState =
                     [q \in PhysReg |-> IF q = p THEN new ELSE IF q \in R THEN Disabled ELSE @[q]]]
             z == [y EXCEPT !.UsedInInstr = @ \cup {p} \cup R]
  <2>1. /\ V \in SUBSET VirtReg /\ R \in SUBSET PhysReg
        /\ \A q \in R : state[q] \in VirtReg => state[q] \in V
    <3>1. Aliases(p) \subseteq PhysReg
      BY MachineAssumption DEF Aliases
    <3>2. R \subseteq Aliases(p)
      BY DEF Until, Aliases
    <3> HIDE DEF R
    <3>3. QED
      BY <3>1, <3>2 DEF Held
  <2>2. \A q \in Aliases(p) : q \in R \/ state[q] = Disabled
    BY <1>1, ReachedAreInUse DEF InState
  <2> HIDE DEF R
  <2>3. definePhysReg(ra, mi, p, new) = z
    BY <1>3 DEF definePhysReg, R
  <2>4. /\ InOrder(x) /\ x.PhysRegState = Freed(state, V)
        /\ DOMAIN x.LiveVirtRegs = DOMAIN ra.LiveVirtRegs \ V
    BY <2>1, SpillVirtRegs
  <2> HIDE DEF x, V
  <2>5. /\ Fields(y) /\ y.LiveVirtRegs = x.LiveVirtRegs
        /\ y.PhysRegState = Retaken(x.PhysRegState, p, R, new)
    BY <2>4, SetState DEF InOrder, Retaken
  <2> HIDE DEF y
  <2>6. /\ Fields(z) /\ z.PhysRegState = y.PhysRegState /\ z.LiveVirtRegs = y.LiveVirtRegs
    BY <2>5, SetUsed
  <2> HIDE DEF z
  <2>7. /\ x.PhysRegState[p] \notin VirtReg
        /\ \A q \in R : x.PhysRegState[q] \notin VirtReg
        /\ \A q \in Aliases(p) : q \in R \/ x.PhysRegState[q] = Disabled
    <3>1. Aliases(p) \subseteq PhysReg
      BY MachineAssumption DEF Aliases
    <3>2. \A q \in PhysReg : x.PhysRegState[q] = IF state[q] \in V THEN Free ELSE state[q]
      BY <2>4 DEF Freed
    <3>3. \A q \in PhysReg : state[q] = Disabled => x.PhysRegState[q] = Disabled
      BY <2>1, <3>2, StatesDiffer
    <3>4. \A q \in R : x.PhysRegState[q] \notin VirtReg
      BY <2>1, <3>2, StatesDiffer
    <3>5. QED
      BY <1>1, <1>3, <2>2, <3>1, <3>3, <3>4
  <2>8. StateOK(y.PhysRegState) /\ MapsAgree(y.PhysRegState, x.LiveVirtRegs) /\ Apart(y.PhysRegState)
    <3>1. /\ StateOK(x.PhysRegState) /\ LiveOK(x.LiveVirtRegs)
          /\ MapsAgree(x.PhysRegState, x.LiveVirtRegs) /\ Apart(x.PhysRegState)
      BY <2>4 DEF InOrder
    <3>2. QED
      BY <2>1, <2>5, <2>7, <3>1, RetakenInOrder
  <2>9. InOrder(z)
    BY <2>4, <2>5, <2>6, <2>8 DEF InOrder
  <2>10. z.PhysRegState[p] = new
    BY <2>5, <2>6 DEF Retaken
  <2>11. QED
    BY <2>3, <2>4, <2>5, <2>6, <2>9, <2>10
<1>4. QED
  BY <1>2, <1>3

\* A loop that does not return early has seen every alias.
LEMMA UntilNone ==
  ASSUME NEW p \in PhysReg, NEW Last, Until(p, Last) \cap Last = {}
  PROVE  Until(p, Last) = Aliases(p)
<1> DEFINE N == Len(AliasSet[p])
           I == {j \in 1 .. N : AliasSet[p][j] \in Last}
<1>1. N \in Nat /\ DOMAIN AliasSet[p] = 1 .. N
  BY MachineAssumption
<1>2. I = {}
  <2> SUFFICES ASSUME I # {} PROVE FALSE
    OBVIOUS
  <2>1. PICK m \in I : \A n \in I : m <= n
    BY <1>1, Least
  <2>2. \A k \in 1 .. (m - 1) : AliasSet[p][k] \notin Last
    BY <1>1, <2>1
  <2>3. AliasSet[p][m] \in Until(p, Last)
    BY <1>1, <2>2 DEF Until
  <2>4. QED
    BY <2>3
<1>3. \A j \in DOMAIN AliasSet[p] : \A k \in 1 .. (j - 1) : AliasSet[p][k] \notin Last
  BY <1>1, <1>2
<1>4. QED
  BY <1>3 DEF Until, Aliases

\* usePhysReg frees the register it is for, or the super-register that is in use in
\* its place, or p itself when every alias is free to be disabled.
LEMMA UsePhys ==
  ASSUME NEW ra, InOrder(ra), NEW mi, NEW p \in PhysReg, ~UsesAllocated(ra, p)
  PROVE  /\ InOrder(usePhysReg(ra, mi, p))
         /\ usePhysReg(ra, mi, p).LiveVirtRegs = ra.LiveVirtRegs
<1> DEFINE state == ra.PhysRegState
           W == InWorkingSet(ra, p)
           U == Until(p, W)
           q == UsedAs(ra, p)
           others == IF state[p] # Disabled THEN {} ELSE U \cap (InState(ra, {Free}) \ {q})
           next == [r \in PhysReg |-> IF r = q THEN Free
                      ELSE IF r \in others THEN Disabled ELSE state[r]]
<1>1. StateOK(state) /\ MapsAgree(state, ra.LiveVirtRegs) /\ Apart(state) /\ LiveOK(ra.LiveVirtRegs)
      /\ Fields(ra)
  BY DEF InOrder
<1>2. U \subseteq Aliases(p) /\ Aliases(p) \subseteq PhysReg
  BY MachineAssumption DEF Until, Aliases
<1>3. /\ W = {r \in PhysReg : state[r] = Reserved} \cup
              {r \in PhysReg : state[r] = Free /\ isSuperRegister(p, r)}
      /\ InState(ra, {Free}) = {r \in PhysReg : state[r] = Free}
  BY DEF InWorkingSet, InState
<1>4. \A r \in others : r \in PhysReg /\ state[r] = Free /\ r # q
  BY <1>2, <1>3
<1>5. /\ q \in PhysReg /\ state[q] \notin VirtReg
      /\ state[q] # Disabled \/ (q = p /\ \A r \in Aliases(p) : r \in others \/ state[r] = Disabled)
  <2>1. CASE state[p] # Disabled
    BY <2>1 DEF UsedAs, UsesAllocated
  <2>2. CASE state[p] = Disabled /\ U \cap W # {}
    <3>1. q \in U \cap W
      BY <2>2 DEF UsedAs
    <3>2. q \in PhysReg /\ state[q] \in {Reserved, Free}
      BY <3>1, <1>2, <1>3
    <3>3. QED
      BY <3>2, StatesDiffer
  <2>3. CASE state[p] = Disabled /\ U \cap W = {}
    <3>1. q = p
      BY <2>3 DEF UsedAs
    <3>2. U = Aliases(p)
      BY <2>3, UntilNone
    <3>3. ASSUME NEW r \in Aliases(p), state[r] # Disabled
          PROVE  r \in others
      <4>1. r \in PhysReg /\ r # p
        BY <1>2, MachineAssumption
      <4>2. state[r] \notin VirtReg /\ state[r] # Reserved
        BY <2>3, <3>2, <1>3, <4>1 DEF UsesAllocated
      <4>3. state[r] = Free
        BY <3>3, <4>1, <4>2, <1>1 DEF StateOK
      <4>4. QED
        BY <2>3, <3>1, <3>2, <4>1, <4>3, <1>3
    <3>4. QED
      BY <2>3, <3>1, <3>3, StatesDiffer
  <2>4. QED
    BY <2>1, <2>2, <2>3
<1> HIDE DEF q, others
<1>6. StateOK(next)
  BY <1>1 DEF StateOK
<1>7. MapsAgree(next, ra.LiveVirtRegs)
  BY <1>1, <1>4, <1>5, StatesDiffer DEF MapsAgree, LiveOK
<1>8. Apart(next)
  <2>1. \A r, t \in PhysReg : t \in Aliases(r) => r # t /\ r \in Aliases(t)
    BY MachineAssumption
  <2>2. \A r \in PhysReg : next[r] # Disabled => r = q \/ state[r] # Disabled
    OBVIOUS
  <2>3. CASE state[q] # Disabled
    BY <2>2, <2>3, <1>1 DEF Apart
  <2>4. CASE q = p /\ \A r \in Aliases(p) : r \in others \/ state[r] = Disabled
    <3>1. \A r \in Aliases(p) : r # p => next[r] = Disabled
      BY <2>4, <1>2
    <3>2. QED
      BY <2>1, <2>2, <2>4, <3>1, <1>1 DEF Apart
  <2>5. QED
    BY <1>5, <2>3, <2>4
<1> DEFINE x == [ra EXCEPT !.PhysRegState =
                   [r \in PhysReg |-> IF r = q THEN Free ELSE IF r \in others THEN Disabled ELSE @[r]]]
           y == [x EXCEPT !.UsedInInstr = ra.UsedInInstr \cup {q}]
           z == [y EXCEPT !.MBB = [ra.MBB EXCEPT ![mi].kills = @ \cup {q}]]
<1>9. usePhysReg(ra, mi, p) = z
  BY DEF usePhysReg, q, others
<1>10. Fields(x) /\ x.PhysRegState = next /\ x.LiveVirtRegs = ra.LiveVirtRegs
  BY <1>1, SetState
<1> HIDE DEF x, next
<1>11. Fields(y) /\ y.PhysRegState = x.PhysRegState /\ y.LiveVirtRegs = x.LiveVirtRegs
  BY <1>10, SetUsed
<1> HIDE DEF y
<1>12. Fields(z) /\ z.PhysRegState = y.PhysRegState /\ z.LiveVirtRegs = y.LiveVirtRegs
  BY <1>11, SetCode
<1> HIDE DEF z
<1>13. QED
  BY <1>1, <1>6, <1>7, <1>8, <1>9, <1>10, <1>11, <1>12 DEF InOrder

-----------------------------------------------------------------------------
(* Giving a virtual register a physical one. *)

\* What there is to take is a physical register.
LEMMA TakenIsPhys ==
  ASSUME NEW ra, NEW v \in VirtReg, NEW hint, Taken(ra, v, hint) # NoReg
  PROVE  Taken(ra, v, hint) \in PhysReg
<1> DEFINE order == Order[v]
           class == {i \in DOMAIN order : order[i] \in Allocatable}
           Cost(i) == calcSpillCost(ra, order[i])
           free == {i \in class : order[i] \in InState(ra, {Free}) \ ra.UsedInInstr}
           cheapest == {i \in class : Cost(i) < spillImpossible /\ \A j \in class : Cost(i) <= Cost(j)}
           First(I) == order[CHOOSE i \in I : \A j \in I : i <= j]
<1>1. \A i \in class : order[i] \in PhysReg
  BY RegAllocAssumption
<1>2. Len(order) \in Nat /\ class \subseteq 1 .. Len(order)
  BY RegAllocAssumption
<1>3. ASSUME NEW I \in SUBSET class, I # {}
      PROVE  First(I) \in PhysReg
  <2>1. I \in SUBSET (1 .. Len(order))
    BY <1>2
  <2>2. \E m \in I : \A n \in I : m <= n
    BY <1>2, <2>1, <1>3, Least
  <2>3. (CHOOSE i \in I : \A j \in I : i <= j) \in I
    BY <2>2
  <2>4. QED
    BY <1>1, <2>3
<1>4. free \in SUBSET class /\ cheapest \in SUBSET class
  OBVIOUS
<1>5. Taken(ra, v, hint) =
        IF (\E i \in class : order[i] = hint) /\ calcSpillCost(ra, hint) < spillImpossible THEN hint
        ELSE IF free # {} THEN First(free)
        ELSE IF cheapest # {} THEN First(cheapest) ELSE NoReg
  BY DEF Taken
<1>6. First(free) \in PhysReg \/ free = {}
  BY <1>3, <1>4
<1>7. First(cheapest) \in PhysReg \/ cheapest = {}
  BY <1>3, <1>4
<1> HIDE DEF First, free, cheapest, class
<1>8. QED
  BY <1>1, <1>5, <1>6, <1>7

\* A register that costs nothing can be taken as it is: neither it nor an alias is
\* in use by anyone.
LEMMA CostsNothing ==
  ASSUME NEW ra, InOrder(ra), NEW p \in PhysReg, calcSpillCost(ra, p) = 0
  PROVE  /\ ra.PhysRegState[p] \in {Free, Disabled}
         /\ \A q \in Aliases(p) : ra.PhysRegState[q] = Disabled
<1> DEFINE state == ra.PhysRegState
           Dirty(R) == {q \in R : \E v \in Live(ra) : state[q] = v /\ ra.LiveVirtRegs[v].Dirty}
           occupied == {q \in Aliases(p) : state[q] # Disabled}
           d == Cardinality(Dirty(occupied))
           c == Cardinality(occupied \ Dirty(occupied))
<1>1. StateOK(state) /\ Apart(state)
  BY DEF InOrder
<1>2. spillImpossible # 0 /\ spillDirty # 0 /\ spillClean # 0
  BY DEF spillImpossible, spillDirty, spillClean
<1>3. CASE state[p] = Free
  <2>1. \A q \in Aliases(p) : q \in PhysReg
    BY MachineAssumption DEF Aliases
  <2>2. QED
    BY <1>1, <1>3, <2>1, StatesDiffer DEF Apart
<1>4. CASE state[p] # Free
  <2>1. state[p] = Disabled /\ spillDirty * d + spillClean * c = 0
    <3>1. state[p] \notin VirtReg /\ state[p] # Reserved
      BY <1>2, <1>4 DEF calcSpillCost
    <3>2. calcSpillCost(ra, p) = spillDirty * d + spillClean * c
      BY <1>2, <1>4, <3>1 DEF calcSpillCost
    <3>3. QED
      BY <1>1, <1>4, <3>1, <3>2 DEF StateOK
  <2>2. IsFiniteSet(Aliases(p))
    <3>1. Len(AliasSet[p]) \in Nat /\ DOMAIN AliasSet[p] = 1 .. Len(AliasSet[p])
      BY MachineAssumption
    <3>2. IsFiniteSet(1 .. Len(AliasSet[p]))
      BY <3>1, FS_Interval
    <3>3. AliasSet[p] \in Surjection(1 .. Len(AliasSet[p]), Aliases(p))
      BY <3>1, MachineAssumption DEF Aliases, Surjection
    <3>4. QED
      BY <3>2, <3>3, FS_Surjection
  <2>3. IsFiniteSet(Dirty(occupied)) /\ IsFiniteSet(occupied \ Dirty(occupied))
    BY <2>2, FS_Subset
  <2>4. d \in Nat /\ c \in Nat
    BY <2>3, FS_CardinalityType
  <2>5. d = 0 /\ c = 0
    <3> HIDE DEF d, c
    <3>1. QED
      BY <2>1, <2>4 DEF spillDirty, spillClean
  <2>6. Dirty(occupied) = {} /\ occupied \ Dirty(occupied) = {}
    BY <2>3, <2>5, FS_EmptySet
  <2>7. QED
    BY <2>1, <2>6
<1>5. QED
  BY <1>3, <1>4

\* A virtual register is given a register no alias of which is in use.
LEMMA Assigned ==
  ASSUME NEW state, NEW live, StateOK(state), LiveOK(live), MapsAgree(state, live), Apart(state),
         NEW p \in PhysReg, NEW v \in VirtReg \ DOMAIN live, NEW l, LiveReg(l), l.PhysReg = p,
         state[p] \notin VirtReg, \A q \in Aliases(p) : state[q] = Disabled
  PROVE  LET s == [state EXCEPT ![p] = v]
             m == [u \in DOMAIN live \cup {v} |-> IF u = v THEN l ELSE live[u]]
         IN StateOK(s) /\ LiveOK(m) /\ MapsAgree(s, m) /\ Apart(s)
<1> DEFINE s == [state EXCEPT ![p] = v]
           m == [u \in DOMAIN live \cup {v} |-> IF u = v THEN l ELSE live[u]]
<1>1. StateOK(s)
  BY DEF StateOK
<1>2. LiveOK(m)
  <2>1. DOMAIN m \subseteq VirtReg /\ m = [u \in DOMAIN m |-> m[u]]
    BY DEF LiveOK
  <2>2. \A u \in DOMAIN m : LiveReg(m[u]) /\ m[u].PhysReg \in PhysReg
    BY DEF LiveOK
  <2>3. QED
    BY <2>1, <2>2 DEF LiveOK
<1>3. MapsAgree(s, m)
  BY DEF MapsAgree, LiveOK, StateOK
<1>4. Apart(s)
  <2>1. \A q, r \in PhysReg : r \in Aliases(q) => q # r /\ q \in Aliases(r)
    BY MachineAssumption
  <2>2. \A q \in PhysReg : q # p => s[q] = state[q]
    BY DEF StateOK
  <2>3. QED
    BY <2>1, <2>2 DEF Apart
<1>5. QED
  BY <1>1, <1>2, <1>3, <1>4

Entry(p) == [PhysReg |-> p, Dirty |-> FALSE, LastUse |-> 0, LastOpNum |-> 0]

LEMMA Alloc ==
  ASSUME NEW ra, InOrder(ra), NEW mi, NEW v \in VirtReg, NEW hint,
         v \notin DOMAIN ra.LiveVirtRegs, Taken(ra, v, hint) # NoReg
  PROVE  /\ InOrder(allocVirtReg(ra, mi, v, hint))
         /\ v \in DOMAIN allocVirtReg(ra, mi, v, hint).LiveVirtRegs
<1> DEFINE p == Taken(ra, v, hint)
           x == IF calcSpillCost(ra, p) = 0 THEN ra ELSE definePhysReg(ra, mi, p, Free)
           y == [x EXCEPT !.PhysRegState = [@ EXCEPT ![p] = v]]
           m == [u \in DOMAIN x.LiveVirtRegs \cup {v} |-> IF u = v THEN Entry(p)
                                                          ELSE x.LiveVirtRegs[u]]
           z == [y EXCEPT !.LiveVirtRegs = m]
<1>1. p \in PhysReg
  BY TakenIsPhys
<1>2. allocVirtReg(ra, mi, v, hint) = z
  BY DEF allocVirtReg, Entry
<1> HIDE DEF p
<1>3. /\ InOrder(x) /\ v \notin DOMAIN x.LiveVirtRegs /\ x.PhysRegState[p] \notin VirtReg
      /\ \A q \in Aliases(p) : x.PhysRegState[q] = Disabled
  <2>1. CASE calcSpillCost(ra, p) = 0
    BY <1>1, <2>1, CostsNothing, StatesDiffer
  <2>2. CASE calcSpillCost(ra, p) # 0
    <3>1. /\ InOrder(x) /\ x.PhysRegState[p] = Free
          /\ DOMAIN x.LiveVirtRegs \subseteq DOMAIN ra.LiveVirtRegs
      BY <1>1, <2>2, DefinePhys
    <3> HIDE DEF x
    <3>2. \A q \in Aliases(p) : q \in PhysReg
      BY <1>1, MachineAssumption DEF Aliases
    <3>3. \A q \in Aliases(p) : x.PhysRegState[q] = Disabled
      BY <1>1, <3>1, <3>2, StatesDiffer DEF InOrder, Apart
    <3>4. QED
      BY <3>1, <3>3, StatesDiffer
  <2>3. QED
    BY <2>1, <2>2
<1> HIDE DEF x
<1>4. LiveReg(Entry(p)) /\ Entry(p).PhysReg = p
  BY DEF LiveReg, Entry
<1>5. /\ StateOK([x.PhysRegState EXCEPT ![p] = v]) /\ LiveOK(m)
      /\ MapsAgree([x.PhysRegState EXCEPT ![p] = v], m) /\ Apart([x.PhysRegState EXCEPT ![p] = v])
  BY <1>1, <1>3, <1>4, Assigned DEF InOrder
<1>6. /\ Fields(y) /\ y.PhysRegState = [x.PhysRegState EXCEPT ![p] = v]
      /\ y.LiveVirtRegs = x.LiveVirtRegs
  BY <1>3, SetState DEF InOrder
<1>7. v \in DOMAIN m
  OBVIOUS
<1> HIDE DEF y, m
<1>8. Fields(z) /\ z.PhysRegState = y.PhysRegState /\ z.LiveVirtRegs = m
  BY <1>6, SetLive
<1> HIDE DEF z
<1>9. InOrder(z)
  BY <1>5, <1>6, <1>8 DEF InOrder
<1>10. QED
  BY <1>2, <1>7, <1>8, <1>9

\* Where a register was last seen, and whether it is dirty, do not concern the maps.
LEMMA SeenKeepsOrder ==
  ASSUME NEW ra, InOrder(ra), NEW mi, NEW k, NEW v \in DOMAIN ra.LiveVirtRegs, NEW dirty
  PROVE  InOrder(Seen(ra, mi, k, v, dirty))
<1> DEFINE live == ra.LiveVirtRegs
           l == [live[v] EXCEPT !.LastUse = mi, !.LastOpNum = k, !.Dirty = dirty]
           m == [live EXCEPT ![v] = l]
           x == [ra EXCEPT !.LiveVirtRegs = m]
           y == [x EXCEPT !.UsedInInstr = ra.UsedInInstr \cup {live[v].PhysReg}]
           z == [y EXCEPT !.MBB = [ra.MBB EXCEPT ![mi].ops[k].reg = live[v].PhysReg]]
<1>1. Seen(ra, mi, k, v, dirty) = z
  BY DEF Seen
<1>2. LiveReg(l) /\ l.PhysReg = live[v].PhysReg
  <2> DEFINE l1 == [live[v] EXCEPT !.LastUse = mi]
             l2 == [l1 EXCEPT !.LastOpNum = k]
             l3 == [l2 EXCEPT !.Dirty = dirty]
  <2>1. LiveReg(live[v])
    BY DEF InOrder, LiveOK
  <2>2. l = l3
    OBVIOUS
  <2>3. LiveReg(l1) /\ l1.PhysReg = live[v].PhysReg
    BY <2>1 DEF LiveReg
  <2> HIDE DEF l, l1
  <2>4. LiveReg(l2) /\ l2.PhysReg = l1.PhysReg
    BY <2>3 DEF LiveReg
  <2> HIDE DEF l2
  <2>5. LiveReg(l3) /\ l3.PhysReg = l2.PhysReg
    BY <2>4 DEF LiveReg
  <2> HIDE DEF l3
  <2>6. QED
    BY <2>2, <2>3, <2>4, <2>5
<1>3. /\ m = [u \in DOMAIN live |-> IF u = v THEN l ELSE live[u]]
      /\ \A u \in DOMAIN live : LiveReg(live[u])
  BY DEF InOrder, LiveOK
<1> HIDE DEF l, m
<1>4. LiveOK(m) /\ MapsAgree(ra.PhysRegState, m)
  <2>1. DOMAIN m = DOMAIN live /\ \A u \in DOMAIN live : LiveReg(m[u]) /\ m[u].PhysReg = live[u].PhysReg
    BY <1>2, <1>3
  <2>2. m = [u \in DOMAIN m |-> m[u]]
    BY <1>3
  <2>3. QED
    BY <2>1, <2>2 DEF LiveOK, MapsAgree, InOrder
<1>5. Fields(x) /\ x.PhysRegState = ra.PhysRegState /\ x.LiveVirtRegs = m
  BY SetLive DEF InOrder
<1> HIDE DEF x
<1>6. Fields(y) /\ y.PhysRegState = x.PhysRegState /\ y.LiveVirtRegs = x.LiveVirtRegs
  BY <1>5, SetUsed
<1> HIDE DEF y
<1>7. Fields(z) /\ z.PhysRegState = y.PhysRegState /\ z.LiveVirtRegs = y.LiveVirtRegs
  BY <1>6, SetCode
<1> HIDE DEF z
<1>8. QED
  BY <1>1, <1>4, <1>5, <1>6, <1>7 DEF InOrder

LEMMA CodeKeepsOrder ==
  ASSUME NEW ra, InOrder(ra), NEW c
  PROVE  InOrder([ra EXCEPT !.MBB = c])
BY SetCode DEF InOrder

LEMMA DefineVirt ==
  ASSUME NEW ra, InOrder(ra), NEW mi, NEW k, NEW v \in VirtReg, NEW hint,
         ~OutOfRegisters(ra, v, HintFor(ra, v, hint))
  PROVE  InOrder(defineVirtReg(ra, mi, k, v, hint))
<1> DEFINE x == IF v \in Live(ra)
                  THEN KillFlagged(ra, {v})
                  ELSE allocVirtReg(ra, mi, v, HintFor(ra, v, hint))
<1>1. InOrder(x) /\ v \in DOMAIN x.LiveVirtRegs
  <2>1. CASE v \in Live(ra)
    <3>1. InOrder(KillFlagged(ra, {v})) /\ KillFlagged(ra, {v}).LiveVirtRegs = ra.LiveVirtRegs
      BY KillFlaggedKeeps DEF InOrder
    <3>2. QED
      BY <2>1, <3>1 DEF Live
  <2>2. CASE v \notin Live(ra)
    BY <2>2, Alloc DEF Live, OutOfRegisters
  <2>3. QED
    BY <2>1, <2>2
<1>2. defineVirtReg(ra, mi, k, v, hint) = Seen(x, mi, k, v, TRUE)
  BY DEF defineVirtReg
<1> HIDE DEF x
<1>3. QED
  BY <1>1, <1>2, SeenKeepsOrder

LEMMA ReloadVirt ==
  ASSUME NEW ra, InOrder(ra), NEW mi, NEW k, NEW v \in VirtReg, NEW hint,
         ~OutOfRegisters(ra, v, hint)
  PROVE  InOrder(reloadVirtReg(ra, mi, k, v, hint))
<1>1. CASE v \in Live(ra)
  <2> DEFINE dirty == ra.LiveVirtRegs[v].Dirty
             last == dirty /\ isLastUseOfLocalReg(ra, mi, k, v)
             x == [ra EXCEPT !.MBB = [@ EXCEPT ![mi].ops[k].kill = last]]
  <2>1. reloadVirtReg(ra, mi, k, v, hint) = Seen(x, mi, k, v, dirty)
    BY <1>1 DEF reloadVirtReg
  <2>2. InOrder(x)
    BY CodeKeepsOrder
  <2>3. x.LiveVirtRegs = ra.LiveVirtRegs
    BY SetCode DEF InOrder
  <2> HIDE DEF x, dirty
  <2>4. QED
    BY <1>1, <2>1, <2>2, <2>3, SeenKeepsOrder DEF Live
<1>2. CASE v \notin Live(ra)
  <2> DEFINE x == allocVirtReg(ra, mi, v, hint)
             load == [virt |-> v, phys |-> x.LiveVirtRegs[v].PhysReg, load |-> TRUE, kill |-> FALSE]
             y == [x EXCEPT !.StackSlots = @ \cup {v}]
             z == [y EXCEPT !.MBB = [x.MBB EXCEPT ![mi].moves = Append(@, {load})]]
  <2>1. reloadVirtReg(ra, mi, k, v, hint) = Seen(z, mi, k, v, FALSE)
    BY <1>2 DEF reloadVirtReg
  <2>2. InOrder(x) /\ v \in DOMAIN x.LiveVirtRegs
    BY <1>2, Alloc DEF Live, OutOfRegisters
  <2> HIDE DEF x
  <2>3. InOrder(y) /\ y.LiveVirtRegs = x.LiveVirtRegs
    BY <2>2, SetSlots DEF InOrder
  <2> HIDE DEF y
  <2>4. InOrder(z) /\ z.LiveVirtRegs = y.LiveVirtRegs
    BY <2>3, SetCode DEF InOrder
  <2> HIDE DEF z
  <2>5. QED
    BY <2>1, <2>2, <2>3, <2>4, SeenKeepsOrder
<1>3. QED
  BY <1>1, <1>2

-----------------------------------------------------------------------------
(* The allocator's steps. *)

\* The inductive invariant: RegInv, and LiveVirtRegs is a map.
IInv ==
  /\ LiveInsApart(fn)
  /\ phase \in Phase
  /\ unreachable \in BOOLEAN
  /\ InOrder(RAFast)
  /\ NothingCrossesBlocks

LEMMA RegInvHolds == IInv => RegInv
BY DEF IInv, InOrder, RAFast, StateOK, LiveOK, MapsAgree, Apart,
       RegInv, TypeOK, MapsAreInverse, NoAliasInUse

\* What an operation returns becomes the state.
LEMMA Becomes ==
  ASSUME NEW x, InOrder(x), Become(x)
  PROVE  InOrder(RAFast)' /\ DOMAIN LiveVirtRegs' = DOMAIN x.LiveVirtRegs
BY DEF InOrder, RAFast, Become, Fields, StateOK, LiveOK, MapsAgree, Apart

\* A step inside a block.
LEMMA WithinBlock ==
  ASSUME IInv, NEW x, InOrder(x), Become(x),
         UNCHANGED fn, phase' \in Phase \ {"block", "run"}, unreachable' \in BOOLEAN
  PROVE  IInv'
BY Becomes DEF IInv, NothingCrossesBlocks, LiveInsApart, Phase

\* A step that the registers have no part in.
LEMMA WithoutRegisters ==
  ASSUME IInv, UNCHANGED <<fn, PhysRegState, LiveVirtRegs, unreachable>>,
         phase' \in Phase, phase' \in {"block", "run"} => phase \in {"block", "run"}
  PROVE  IInv'
<1>1. InOrder(RAFast)'
  BY DEF IInv, InOrder, RAFast, Fields, StateOK, LiveOK, MapsAgree, Apart
<1>2. QED
  BY <1>1 DEF IInv, NothingCrossesBlocks, LiveInsApart

LEMMA Initially == Init => IInv
<1> SUFFICES ASSUME Init PROVE IInv
  OBVIOUS
<1>1. LiveInsApart(fn)
  BY RegAllocAssumption DEF Init
<1>2. InOrder(RAFast)
  BY StatesDiffer DEF Init, InOrder, RAFast, Fields, StateOK, LiveOK, MapsAgree, Apart
<1>3. LiveVirtRegs = <<>> /\ phase = "block" /\ unreachable = FALSE
  BY DEF Init
<1>4. DOMAIN LiveVirtRegs = {}
  BY <1>3
<1>5. QED
  BY <1>1, <1>2, <1>3, <1>4 DEF IInv, NothingCrossesBlocks, Phase

\* Registers live into a block do not overlap, and nothing else is in use there.
LEMMA BeginBlockStep == IInv /\ BeginBlock => IInv'
<1> SUFFICES ASSUME IInv, BeginBlock PROVE IInv'
  OBVIOUS
<1> DEFINE livein == {fn[Current].livein[i] : i \in DOMAIN fn[Current].livein}
<1>1. /\ PhysRegState' = [p \in PhysReg |-> IF p \in livein \cap Allocatable THEN Reserved
                                            ELSE Disabled]
      /\ LiveVirtRegs' = LiveVirtRegs /\ Current \in DOMAIN fn
  BY DEF BeginBlock
<1>2. DOMAIN LiveVirtRegs = {} /\ LiveOK(LiveVirtRegs)
  BY DEF BeginBlock, IInv, NothingCrossesBlocks, InOrder, RAFast
<1>3. \A p, q \in livein : p \notin Aliases(q)
  BY <1>1 DEF IInv, LiveInsApart
<1> HIDE DEF livein
<1>4. StateOK(PhysRegState') /\ Apart(PhysRegState')
  BY <1>1, <1>3 DEF StateOK, Apart
<1>5. MapsAgree(PhysRegState', LiveVirtRegs')
  BY <1>1, <1>2, StatesDiffer DEF MapsAgree
<1>6. LiveOK(LiveVirtRegs')
  BY <1>1, <1>2
<1>7. InOrder(RAFast)'
  BY <1>4, <1>5, <1>6 DEF InOrder, RAFast, Fields, StateOK, LiveOK, MapsAgree, Apart
<1>8. QED
  BY <1>7 DEF IInv, BeginBlock, NothingCrossesBlocks, LiveInsApart, Phase

LEMMA FirstScanSteps ==
  IInv /\ (ScanUsePhysReg \/ ScanEarlyPhysReg \/ CollidingPhysDef) => IInv'
<1> SUFFICES ASSUME IInv PROVE ScanUsePhysReg \/ ScanEarlyPhysReg \/ CollidingPhysDef => IInv'
  OBVIOUS
<1>1. InOrder(RAFast)
  BY DEF IInv
<1>2. ASSUME ScanUsePhysReg PROVE IInv'
  <2>1. PICK k \in Next1(FirstScan) :
          IF UsesAllocated(RAFast, Ops[k].reg) THEN Fails
          ELSE Become(usePhysReg(RAFast, MI, Ops[k].reg)) /\ UNCHANGED unreachable
    BY <1>2 DEF ScanUsePhysReg
  <2>2. Ops[k].reg \in PhysReg
    BY RegAllocAssumption DEF Next1, FirstScan
  <2>3. UNCHANGED fn /\ phase' \in Phase \ {"block", "run"}
    BY <1>2 DEF ScanUsePhysReg, Scanning, Phase
  <2>4. CASE UsesAllocated(RAFast, Ops[k].reg)
    <3>1. Become(RAFast) /\ unreachable' \in BOOLEAN
      BY <2>1, <2>4 DEF Fails, Become, RAFast
    <3>2. QED
      BY <1>1, <2>3, <3>1, WithinBlock
  <2>5. CASE ~UsesAllocated(RAFast, Ops[k].reg)
    <3>1. InOrder(usePhysReg(RAFast, MI, Ops[k].reg))
      BY <1>1, <2>2, <2>5, UsePhys
    <3>2. Become(usePhysReg(RAFast, MI, Ops[k].reg)) /\ unreachable' \in BOOLEAN
      BY <2>1, <2>5 DEF IInv
    <3>3. QED
      BY <2>3, <3>1, <3>2, WithinBlock
  <2>6. QED
    BY <2>4, <2>5
<1>3. ASSUME ScanEarlyPhysReg PROVE IInv'
  <2>1. PICK k \in Next1(FirstScan) :
          Become(definePhysReg(RAFast, MI, Ops[k].reg, DefinedState(Ops[k])))
    BY <1>3 DEF ScanEarlyPhysReg
  <2>2. Ops[k].reg \in PhysReg /\ DefinedState(Ops[k]) \in {Free, Reserved}
    BY RegAllocAssumption DEF Next1, FirstScan, DefinedState
  <2>3. InOrder(definePhysReg(RAFast, MI, Ops[k].reg, DefinedState(Ops[k])))
    BY <1>1, <2>2, DefinePhys
  <2>4. UNCHANGED fn /\ phase' \in Phase \ {"block", "run"} /\ unreachable' \in BOOLEAN
    BY <1>3 DEF ScanEarlyPhysReg, Scanning, Phase, IInv
  <2>5. QED
    BY <2>1, <2>3, <2>4, WithinBlock
<1>4. ASSUME CollidingPhysDef PROVE IInv'
  <2>1. PICK k \in Next1(CollideScan) :
          LET defined == {Ops[k].reg} \cup Aliases(Ops[k].reg)
              colliding == {PhysRegState[p] : p \in defined} \cap ThroughRegs
          IN Become([spillVirtRegs(RAFast, MI, colliding) EXCEPT !.UsedInInstr = @ \cup defined])
    BY <1>4 DEF CollidingPhysDef
  <2> DEFINE defined == {Ops[k].reg} \cup Aliases(Ops[k].reg)
             colliding == {PhysRegState[p] : p \in defined} \cap ThroughRegs
             x == spillVirtRegs(RAFast, MI, colliding)
             y == [x EXCEPT !.UsedInInstr = @ \cup defined]
  <2>2. colliding \in SUBSET VirtReg
    BY DEF ThroughRegs, IsVirt
  <2>3. Become(y)
    BY <2>1
  <2> HIDE DEF colliding
  <2>4. InOrder(x)
    BY <1>1, <2>2, SpillVirtRegs
  <2> HIDE DEF x
  <2>5. InOrder(y)
    BY <2>4, SetUsed DEF InOrder
  <2> HIDE DEF y
  <2>6. UNCHANGED fn /\ phase' \in Phase \ {"block", "run"} /\ unreachable' \in BOOLEAN
    BY <1>4 DEF CollidingPhysDef, Scanning, Phase, IInv
  <2>7. QED
    BY <2>3, <2>5, <2>6, WithinBlock
<1>5. QED
  BY <1>2, <1>3, <1>4

LEMMA UseSteps ==
  IInv /\ (ThroughUse \/ EarlyClobber \/ VirtUse) => IInv'
<1> SUFFICES ASSUME IInv PROVE ThroughUse \/ EarlyClobber \/ VirtUse => IInv'
  OBVIOUS
<1>1. InOrder(RAFast)
  BY DEF IInv
<1>2. ASSUME Fails, UNCHANGED fn, phase' \in Phase \ {"block", "run"}
      PROVE  IInv'
  <2>1. Become(RAFast) /\ unreachable' \in BOOLEAN
    BY <1>2 DEF Fails, Become, RAFast
  <2>2. QED
    BY <1>1, <1>2, <2>1, WithinBlock
<1>3. ASSUME ThroughUse PROVE IInv'
  <2>1. PICK k \in Next1(ThroughScan) :
          IF OutOfRegisters(RAFast, Ops[k].reg, NoReg) THEN Fails
          ELSE Become(reloadVirtReg(RAFast, MI, k, Ops[k].reg, NoReg)) /\ UNCHANGED unreachable
    BY <1>3 DEF ThroughUse
  <2>2. Ops[k].reg \in VirtReg
    BY DEF Next1, ThroughScan, IsVirt
  <2>3. UNCHANGED fn /\ phase' \in Phase \ {"block", "run"}
    BY <1>3 DEF ThroughUse, Scanning, Phase
  <2>4. CASE ~OutOfRegisters(RAFast, Ops[k].reg, NoReg)
    <3>1. InOrder(reloadVirtReg(RAFast, MI, k, Ops[k].reg, NoReg))
      BY <1>1, <2>2, <2>4, ReloadVirt
    <3>2. Become(reloadVirtReg(RAFast, MI, k, Ops[k].reg, NoReg)) /\ unreachable' \in BOOLEAN
      BY <2>1, <2>4 DEF IInv
    <3>3. QED
      BY <2>3, <3>1, <3>2, WithinBlock
  <2>5. QED
    BY <1>2, <2>1, <2>3, <2>4
<1>4. ASSUME EarlyClobber PROVE IInv'
  <2>1. PICK k \in Next1(ThroughScan) :
          IF OutOfRegisters(RAFast, Ops[k].reg, HintFor(RAFast, Ops[k].reg, NoReg)) THEN Fails
          ELSE Become(defineVirtReg(RAFast, MI, k, Ops[k].reg, NoReg)) /\ UNCHANGED unreachable
    BY <1>4 DEF EarlyClobber
  <2>2. Ops[k].reg \in VirtReg
    BY DEF Next1, ThroughScan, IsVirt
  <2>3. UNCHANGED fn /\ phase' \in Phase \ {"block", "run"}
    BY <1>4 DEF EarlyClobber, Scanning, Phase
  <2>4. CASE ~OutOfRegisters(RAFast, Ops[k].reg, HintFor(RAFast, Ops[k].reg, NoReg))
    <3>1. InOrder(defineVirtReg(RAFast, MI, k, Ops[k].reg, NoReg))
      BY <1>1, <2>2, <2>4, DefineVirt
    <3>2. Become(defineVirtReg(RAFast, MI, k, Ops[k].reg, NoReg)) /\ unreachable' \in BOOLEAN
      BY <2>1, <2>4 DEF IInv
    <3>3. QED
      BY <2>3, <3>1, <3>2, WithinBlock
  <2>5. QED
    BY <1>2, <2>1, <2>3, <2>4
<1>5. ASSUME VirtUse PROVE IInv'
  <2>1. PICK k \in Next1(UseScan) :
          LET next == reloadVirtReg(RAFast, MI, k, Ops[k].reg, CopyDst)
          IN IF OutOfRegisters(RAFast, Ops[k].reg, CopyDst) THEN Fails
             ELSE /\ Become(IF next.MBB[MI].ops[k].kill THEN killVirtRegs(next, {Ops[k].reg})
                            ELSE next)
                  /\ UNCHANGED unreachable
    BY <1>5 DEF VirtUse
  <2> DEFINE next == reloadVirtReg(RAFast, MI, k, Ops[k].reg, CopyDst)
             x == IF next.MBB[MI].ops[k].kill THEN killVirtRegs(next, {Ops[k].reg}) ELSE next
  <2>2. Ops[k].reg \in VirtReg
    BY DEF Next1, UseScan, IsVirt
  <2>3. UNCHANGED fn /\ phase' \in Phase \ {"block", "run"}
    BY <1>5 DEF VirtUse, Scanning, Phase
  <2>4. CASE ~OutOfRegisters(RAFast, Ops[k].reg, CopyDst)
    <3>1. Become(x) /\ unreachable' \in BOOLEAN
      BY <2>1, <2>4 DEF IInv
    <3>2. InOrder(next)
      BY <1>1, <2>2, <2>4, ReloadVirt
    <3> HIDE DEF next
    <3>3. InOrder(killVirtRegs(next, {Ops[k].reg}))
      BY <2>2, <3>2, KillKeepsOrder
    <3>4. InOrder(x)
      BY <3>2, <3>3
    <3> HIDE DEF x
    <3>5. QED
      BY <2>3, <3>1, <3>4, WithinBlock
  <2>5. QED
    BY <1>2, <2>1, <2>3, <2>4
<1>6. QED
  BY <1>3, <1>4, <1>5

LEMMA EndOfUsesStep == IInv /\ EndOfUses => IInv'
<1> SUFFICES ASSUME IInv, EndOfUses PROVE IInv'
  OBVIOUS
<1>1. PICK used : LET marked == [RAFast EXCEPT !.UsedInInstr = used]
                  IN Become(IF Given.kind = "call" THEN spillAll(marked, MI) ELSE marked)
  BY DEF EndOfUses
<1> DEFINE marked == [RAFast EXCEPT !.UsedInInstr = used]
           x == IF Given.kind = "call" THEN spillAll(marked, MI) ELSE marked
<1>2. InOrder(marked)
  BY SetUsed DEF InOrder, IInv
<1>3. Become(x)
  BY <1>1
<1> HIDE DEF marked
<1>4. Live(marked) \in SUBSET VirtReg
  BY <1>2 DEF InOrder, LiveOK, Live
<1>5. InOrder(spillAll(marked, MI))
  BY <1>2, <1>4, SpillVirtRegs DEF spillAll
<1>6. InOrder(x)
  BY <1>2, <1>5
<1> HIDE DEF x
<1>7. UNCHANGED fn /\ phase' \in Phase \ {"block", "run"} /\ unreachable' \in BOOLEAN
  BY DEF EndOfUses, Phase, IInv
<1>8. QED
  BY <1>3, <1>6, <1>7, WithinBlock

LEMMA DefineSteps == IInv /\ (DefinePhysReg \/ DefineVirtReg) => IInv'
<1> SUFFICES ASSUME IInv PROVE DefinePhysReg \/ DefineVirtReg => IInv'
  OBVIOUS
<1>1. InOrder(RAFast)
  BY DEF IInv
<1>2. ASSUME DefinePhysReg PROVE IInv'
  <2>1. PICK k \in Next1(DefScan) :
          /\ ~IsVirt(Ops[k])
          /\ Become(definePhysReg(RAFast, MI, Ops[k].reg, DefinedState(Ops[k])))
    BY <1>2 DEF DefinePhysReg
  <2>2. Ops[k].reg \in PhysReg /\ DefinedState(Ops[k]) \in {Free, Reserved}
    BY <2>1, RegAllocAssumption DEF Next1, DefScan, IsVirt, DefinedState
  <2>3. InOrder(definePhysReg(RAFast, MI, Ops[k].reg, DefinedState(Ops[k])))
    BY <1>1, <2>2, DefinePhys
  <2>4. UNCHANGED fn /\ phase' \in Phase \ {"block", "run"} /\ unreachable' \in BOOLEAN
    BY <1>2 DEF DefinePhysReg, Scanning, Phase, IInv
  <2>5. QED
    BY <2>1, <2>3, <2>4, WithinBlock
<1>3. ASSUME DefineVirtReg PROVE IInv'
  <2>1. PICK k \in Next1(DefScan) :
          /\ IsVirt(Ops[k])
          /\ IF OutOfRegisters(RAFast, Ops[k].reg, HintFor(RAFast, Ops[k].reg, CopySrc)) THEN Fails
             ELSE /\ Become(defineVirtReg(RAFast, MI, k, Ops[k].reg, CopySrc))
                  /\ UNCHANGED unreachable
    BY <1>3 DEF DefineVirtReg
  <2>2. UNCHANGED fn /\ phase' \in Phase \ {"block", "run"}
    BY <1>3 DEF DefineVirtReg, Scanning, Phase
  <2>3. CASE OutOfRegisters(RAFast, Ops[k].reg, HintFor(RAFast, Ops[k].reg, CopySrc))
    <3>1. Become(RAFast) /\ unreachable' \in BOOLEAN
      BY <2>1, <2>3 DEF Fails, Become, RAFast
    <3>2. QED
      BY <1>1, <2>2, <3>1, WithinBlock
  <2>4. CASE ~OutOfRegisters(RAFast, Ops[k].reg, HintFor(RAFast, Ops[k].reg, CopySrc))
    <3>1. InOrder(defineVirtReg(RAFast, MI, k, Ops[k].reg, CopySrc))
      BY <1>1, <2>1, <2>4, DefineVirt DEF IsVirt
    <3>2. Become(defineVirtReg(RAFast, MI, k, Ops[k].reg, CopySrc)) /\ unreachable' \in BOOLEAN
      BY <2>1, <2>4 DEF IInv
    <3>3. QED
      BY <2>2, <3>1, <3>2, WithinBlock
  <2>5. QED
    BY <2>3, <2>4
<1>4. QED
  BY <1>2, <1>3

LEMMA EndOfInstrStep == IInv /\ EndOfInstr => IInv'
<1> SUFFICES ASSUME IInv, EndOfInstr PROVE IInv'
  OBVIOUS
<1> DEFINE V == VirtDead \cap DOMAIN LiveVirtRegs
           x == killVirtRegs(RAFast, V)
           y == [x EXCEPT !.MBB = [@ EXCEPT ![MI].gone = CopyDst # NoReg /\ CopyDst = CopySrc]]
<1>1. Become(y)
  BY DEF EndOfInstr
<1>2. V \in SUBSET VirtReg
  BY DEF IInv, InOrder, LiveOK, RAFast
<1> HIDE DEF V
<1>3. InOrder(x)
  BY <1>2, KillKeepsOrder DEF IInv
<1> HIDE DEF x
<1>4. InOrder(y)
  BY <1>3, CodeKeepsOrder
<1> HIDE DEF y
<1>5. UNCHANGED fn /\ phase' \in Phase \ {"block", "run"} /\ unreachable' \in BOOLEAN
  BY DEF EndOfInstr, Phase, IInv
<1>6. QED
  BY <1>1, <1>4, <1>5, WithinBlock

\* What is live at the end of a block is stored: nothing crosses.
LEMMA EndOfBlockStep == IInv /\ EndOfBlock => IInv'
<1> SUFFICES ASSUME IInv, EndOfBlock PROVE IInv'
  OBVIOUS
<1> DEFINE x == spillAll(RAFast, FirstTerminator)
           y == [x EXCEPT !.MBB = <<>>]
<1>1. Become(y)
  BY DEF EndOfBlock
<1>2. Live(RAFast) \in SUBSET VirtReg
  BY DEF IInv, InOrder, LiveOK, Live
<1>3. InOrder(x) /\ DOMAIN x.LiveVirtRegs = {}
  BY <1>2, SpillVirtRegs DEF spillAll, IInv, Live
<1> HIDE DEF x
<1>4. InOrder(y) /\ y.LiveVirtRegs = x.LiveVirtRegs
  BY <1>3, SetCode DEF InOrder
<1> HIDE DEF y
<1>5. InOrder(RAFast)' /\ DOMAIN LiveVirtRegs' = {}
  BY <1>1, <1>3, <1>4, Becomes
<1>6. QED
  BY <1>5 DEF IInv, EndOfBlock, NothingCrossesBlocks, LiveInsApart, Phase

LEMMA OtherSteps ==
  IInv /\ (BeginInstr \/ EndOfFirstScan \/ EndOfCollisions \/ EndOfThrough \/ EndOfFunction
           \/ RunMoves \/ Execute \/ Branch \/ UNCHANGED vars) => IInv'
<1> SUFFICES ASSUME IInv PROVE BeginInstr \/ EndOfFirstScan \/ EndOfCollisions \/ EndOfThrough
               \/ EndOfFunction \/ RunMoves \/ Execute \/ Branch \/ UNCHANGED vars => IInv'
  OBVIOUS
<1>1. ASSUME BeginInstr \/ EndOfFirstScan \/ EndOfCollisions \/ EndOfThrough PROVE IInv'
  <2>1. /\ UNCHANGED <<fn, PhysRegState, LiveVirtRegs, unreachable>>
        /\ phase' \in Phase \ {"block", "run"}
    BY <1>1 DEF BeginInstr, EndOfFirstScan, EndOfCollisions, EndOfThrough, Phase, raVars
  <2>2. QED
    BY <2>1, WithoutRegisters
<1>2. ASSUME EndOfFunction \/ RunMoves \/ Execute \/ Branch \/ UNCHANGED vars PROVE IInv'
  <2>1. /\ UNCHANGED <<fn, PhysRegState, LiveVirtRegs, unreachable>>
        /\ phase' \in Phase /\ (phase' \in {"block", "run"} => phase \in {"block", "run"})
    BY <1>2 DEF EndOfFunction, RunMoves, Execute, Branch, vars, Phase, raVars, IInv
  <2>2. QED
    BY <2>1, WithoutRegisters
<1>3. QED
  BY <1>1, <1>2

\* Every step keeps the invariant.
LEMMA IInvStep == IInv /\ [Next]_vars => IInv'
<1> SUFFICES ASSUME IInv, [Next]_vars PROVE IInv'
  OBVIOUS
<1>1. CASE BeginBlock
  BY <1>1, BeginBlockStep
<1>2. CASE ScanUsePhysReg \/ ScanEarlyPhysReg \/ CollidingPhysDef
  BY <1>2, FirstScanSteps
<1>3. CASE ThroughUse \/ EarlyClobber \/ VirtUse
  BY <1>3, UseSteps
<1>4. CASE EndOfUses
  BY <1>4, EndOfUsesStep
<1>5. CASE DefinePhysReg \/ DefineVirtReg
  BY <1>5, DefineSteps
<1>6. CASE EndOfInstr
  BY <1>6, EndOfInstrStep
<1>7. CASE EndOfBlock
  BY <1>7, EndOfBlockStep
<1>8. CASE BeginInstr \/ EndOfFirstScan \/ EndOfCollisions \/ EndOfThrough \/ EndOfFunction
           \/ RunMoves \/ Execute \/ Branch \/ UNCHANGED vars
  BY <1>8, OtherSteps
<1>9. QED
  BY <1>1, <1>2, <1>3, <1>4, <1>5, <1>6, <1>7, <1>8 DEF Next

\* In every state of the allocator, for every target and every function whose
\* live-in registers do not overlap: PhysRegState and LiveVirtRegs are inverse, two
\* overlapping registers are never both in use, no register is live across blocks.
THEOREM RegistersInOrder == Spec => []RegInv
BY Initially, IInvStep, RegInvHolds, PTL DEF Spec
-----------------------------------------------------------------------------
(* The code. But for kill flags, kills and stores an operation changes little *)
(* of it: it inserts a load, or puts a register in the place of an operand.   *)

Move == [virt : VirtReg, phys : PhysReg, load : BOOLEAN, kill : BOOLEAN]
AInstr == [kind : InstrKind, ops : Seq(Operand), moves : Seq(SUBSET Move),
           kills : SUBSET PhysReg, gone : BOOLEAN]

\* The registers loaded before an instruction.
Loads(ins) == {m.phys : m \in UNION {{x \in ins.moves[j] : x.load} : j \in DOMAIN ins.moves}}

SameOperand(o, p) == p.def = o.def /\ p.early = o.early /\ p.imp = o.imp

\* The same instruction, but perhaps for its registers.
Alike(x, y) ==
  /\ y.kind = x.kind /\ DOMAIN y.ops = DOMAIN x.ops
  /\ \A k \in DOMAIN x.ops : SameOperand(x.ops[k], y.ops[k])

SameRegs(x, y) == \A k \in DOMAIN x.ops : y.ops[k].reg = x.ops[k].reg

\* c became d, where at most the registers L are loaded before instruction m.
Kept(c, d, m, L) ==
  /\ d \in Seq(AInstr) /\ Len(d) = Len(c)
  /\ \A i \in 1 .. Len(c) : /\ Alike(c[i], d[i]) /\ SameRegs(c[i], d[i])
                            /\ Loads(d[i]) \subseteq Loads(c[i]) \cup (IF i = m THEN L ELSE {})

\* And operand k of instruction m is register p now.
Placed(c, d, m, k, p, L) ==
  /\ d \in Seq(AInstr) /\ Len(d) = Len(c)
  /\ \A i \in 1 .. Len(c) : /\ Alike(c[i], d[i])
                            /\ i # m => SameRegs(c[i], d[i])
                            /\ Loads(d[i]) \subseteq Loads(c[i]) \cup (IF i = m THEN L ELSE {})
  /\ \A j \in DOMAIN c[m].ops : d[m].ops[j].reg = IF j = k THEN p ELSE c[m].ops[j].reg

LEMMA KeptTwice ==
  ASSUME NEW c \in Seq(AInstr), NEW d, NEW e, NEW m, NEW L, Kept(c, d, m, {}), Kept(d, e, m, L)
  PROVE  Kept(c, e, m, L)
<1>1. /\ e \in Seq(AInstr) /\ Len(e) = Len(c) /\ Len(d) = Len(c)
  BY DEF Kept
<1>2. ASSUME NEW i \in 1 .. Len(c)
      PROVE  /\ Alike(c[i], e[i]) /\ SameRegs(c[i], e[i])
             /\ Loads(e[i]) \subseteq Loads(c[i]) \cup (IF i = m THEN L ELSE {})
  <2>1. /\ Alike(c[i], d[i]) /\ SameRegs(c[i], d[i]) /\ Loads(d[i]) \subseteq Loads(c[i])
        /\ Alike(d[i], e[i]) /\ SameRegs(d[i], e[i])
        /\ Loads(e[i]) \subseteq Loads(d[i]) \cup (IF i = m THEN L ELSE {})
    BY <1>1 DEF Kept
  <2> QED BY <2>1 DEF Alike, SameRegs, SameOperand
<1> QED BY <1>1, <1>2 DEF Kept

LEMMA KeptAndPlaced ==
  ASSUME NEW c \in Seq(AInstr), NEW d, NEW e, NEW m \in 1 .. Len(c), NEW k, NEW p, NEW L,
         NEW M, Kept(c, d, m, L), Placed(d, e, m, k, p, M)
  PROVE  Placed(c, e, m, k, p, L \cup M)
<1>1. /\ e \in Seq(AInstr) /\ Len(e) = Len(c) /\ Len(d) = Len(c)
  BY DEF Kept, Placed
<1>2. ASSUME NEW i \in 1 .. Len(c)
      PROVE  /\ Alike(c[i], e[i]) /\ (i # m => SameRegs(c[i], e[i]))
             /\ Loads(e[i]) \subseteq Loads(c[i]) \cup (IF i = m THEN L \cup M ELSE {})
  <2>1. /\ Alike(c[i], d[i]) /\ SameRegs(c[i], d[i])
        /\ Loads(d[i]) \subseteq Loads(c[i]) \cup (IF i = m THEN L ELSE {})
        /\ Alike(d[i], e[i]) /\ (i # m => SameRegs(d[i], e[i]))
        /\ Loads(e[i]) \subseteq Loads(d[i]) \cup (IF i = m THEN M ELSE {})
    BY <1>1 DEF Kept, Placed
  <2> QED BY <2>1 DEF Alike, SameRegs, SameOperand
<1>3. \A j \in DOMAIN c[m].ops : e[m].ops[j].reg = IF j = k THEN p ELSE c[m].ops[j].reg
  BY DEF Kept, Placed, Alike, SameRegs
<1> QED BY <1>1, <1>2, <1>3 DEF Placed

\* Flagging kills.
LEMMA FlagsKeepCode ==
  ASSUME NEW ra, ra.MBB \in Seq(AInstr), NEW V, \A v \in V : ra.LiveVirtRegs[v].PhysReg \in PhysReg,
         NEW m
  PROVE  Kept(ra.MBB, KillFlags(ra, V), m, {})
<1> DEFINE c == ra.MBB
           d == KillFlags(ra, V)
           At(v) == ra.LiveVirtRegs[v].LastOpNum
           Register(v) == ra.LiveVirtRegs[v].PhysReg
           Killers(i) == {v \in V : ra.LiveVirtRegs[v].LastUse = i
                            /\ LET o == ra.MBB[i].ops[At(v)] IN ~o.def /\ ~IsTiedUse(o)}
           flag(i, k) == \E v \in Killers(i) : At(v) = k /\ c[i].ops[k].reg = Register(v)
           elsewhere(i) == {v \in Killers(i) : c[i].ops[At(v)].reg # Register(v)}
           more(i) == {Register(v) : v \in elsewhere(i)}
           ops(i) == [k \in DOMAIN c[i].ops |-> [c[i].ops[k] EXCEPT !.kill = @ \/ flag(i, k)]]
           ins(i) == [c[i] EXCEPT !.ops = ops(i), !.kills = @ \cup more(i)]
<1>1. d = [i \in DOMAIN c |-> ins(i)]
  BY DEF KillFlags
<1>2. \A i : more(i) \subseteq PhysReg
  OBVIOUS
<1>3. \A i \in DOMAIN c : \A k \in DOMAIN c[i].ops : flag(i, k) \in BOOLEAN
  OBVIOUS
<1> HIDE DEF flag, more
<1>4. ASSUME NEW i \in 1 .. Len(c)
      PROVE  /\ ins(i) \in AInstr /\ Alike(c[i], ins(i)) /\ SameRegs(c[i], ins(i))
             /\ ins(i).moves = c[i].moves
  <2>1. c[i] \in AInstr
    OBVIOUS
  <2>2. \A k \in DOMAIN c[i].ops : c[i].ops[k] \in Operand
    BY <2>1 DEF AInstr
  <2>3. ops(i) \in Seq(Operand) /\ DOMAIN ops(i) = DOMAIN c[i].ops
        /\ \A k \in DOMAIN c[i].ops : SameOperand(c[i].ops[k], ops(i)[k]) /\ ops(i)[k].reg = c[i].ops[k].reg
    <3> DEFINE o(k) == [c[i].ops[k] EXCEPT !.kill = @ \/ flag(i, k)]
    <3>1. ASSUME NEW k \in DOMAIN c[i].ops
          PROVE  o(k) \in Operand /\ SameOperand(c[i].ops[k], o(k)) /\ o(k).reg = c[i].ops[k].reg
      BY <2>2 DEF Operand, SameOperand
    <3> HIDE DEF o
    <3>2. c[i].ops \in Seq(Operand)
      BY <2>1 DEF AInstr
    <3>3. DOMAIN c[i].ops = 1 .. Len(c[i].ops) /\ Len(c[i].ops) \in Nat
      BY <3>2
    <3>4. ops(i) = [k \in DOMAIN c[i].ops |-> o(k)]
      BY DEF o
    <3> QED BY <3>1, <3>3, <3>4
  <2> HIDE DEF ops
  <2>4. ins(i) \in AInstr /\ ins(i).ops = ops(i) /\ ins(i).kind = c[i].kind /\ ins(i).moves = c[i].moves
    BY <2>1, <2>3, <1>2 DEF AInstr
  <2> QED BY <2>3, <2>4 DEF Alike, SameRegs
<1> HIDE DEF ins
<1>5. DOMAIN c = 1 .. Len(c) /\ Len(c) \in Nat
  OBVIOUS
<1>6. d \in Seq(AInstr) /\ Len(d) = Len(c) /\ \A i \in 1 .. Len(c) : d[i] = ins(i)
  BY <1>1, <1>4, <1>5
<1>7. \A i \in 1 .. Len(c) : Loads(d[i]) = Loads(c[i])
  BY <1>4, <1>6 DEF Loads
<1> HIDE DEF d
<1>8. \A i \in 1 .. Len(c) : Alike(c[i], d[i]) /\ SameRegs(c[i], d[i])
  BY <1>4, <1>6
<1> QED BY ONLY <1>6, <1>7, <1>8 DEF Kept, d, c

\* Moves inserted before instruction m load what is loaded in them.
LEMMA MovesInserted ==
  ASSUME NEW c \in Seq(AInstr), NEW m \in 1 .. Len(c), NEW moves \in SUBSET Move, NEW L,
         \A x \in moves : x.load => x.phys \in L
  PROVE  /\ Kept(c, [c EXCEPT ![m].moves = Append(@, moves)], m, L)
         /\ Kept(c, c, m, {})
<1> DEFINE d == [c EXCEPT ![m].moves = Append(@, moves)]
           new == [c[m] EXCEPT !.moves = Append(@, moves)]
<1>1. d = [c EXCEPT ![m] = new]
  OBVIOUS
<1>2. c[m] \in AInstr
  OBVIOUS
<1>8. Append(c[m].moves, moves) \in Seq(SUBSET Move)
  BY <1>2 DEF AInstr
<1>3. new \in AInstr /\ new.ops = c[m].ops /\ new.kind = c[m].kind /\ new.moves = Append(c[m].moves, moves)
  BY <1>2, <1>8 DEF AInstr
<1> HIDE DEF new, d
<1>4. d \in Seq(AInstr) /\ Len(d) = Len(c) /\ d[m] = new /\ \A i \in 1 .. Len(c) : i # m => d[i] = c[i]
  BY <1>1, <1>3
<1>5. Loads(new) \subseteq Loads(c[m]) \cup L
  <2>1. c[m].moves \in Seq(SUBSET Move)
    BY <1>2 DEF AInstr
  <2>2. \A j \in DOMAIN new.moves : (j \in DOMAIN c[m].moves /\ new.moves[j] = c[m].moves[j]) \/ new.moves[j] = moves
    BY <1>3, <2>1
  <2> QED BY <2>2 DEF Loads
<1>6. \A x : Alike(x, x) /\ SameRegs(x, x)
  BY DEF Alike, SameRegs, SameOperand
<1>7. Alike(c[m], new) /\ SameRegs(c[m], new)
  BY <1>3 DEF Alike, SameRegs, SameOperand
<1> QED BY <1>4, <1>5, <1>6, <1>7 DEF Kept, d

\* Assigning to a member leaves the code and what the instruction uses as they are.
LEMMA OtherMembers ==
  ASSUME NEW ra, Fields(ra), NEW x
  PROVE  /\ LET s == [ra EXCEPT !.PhysRegState = x] IN s.UsedInInstr = ra.UsedInInstr /\ s.MBB = ra.MBB
         /\ LET s == [ra EXCEPT !.LiveVirtRegs = x] IN s.UsedInInstr = ra.UsedInInstr /\ s.MBB = ra.MBB
         /\ LET s == [ra EXCEPT !.StackSlots = x] IN s.UsedInInstr = ra.UsedInInstr /\ s.MBB = ra.MBB
         /\ LET s == [ra EXCEPT !.UsedInInstr = x] IN s.UsedInInstr = x /\ s.MBB = ra.MBB
         /\ LET s == [ra EXCEPT !.MBB = x] IN s.UsedInInstr = ra.UsedInInstr /\ s.MBB = x
BY DEF Fields

LEMMA KillKeepsCode ==
  ASSUME NEW ra, Fields(ra), ra.MBB \in Seq(AInstr),
         NEW V, \A v \in V : ra.LiveVirtRegs[v].PhysReg \in PhysReg, NEW m
  PROVE  /\ Kept(ra.MBB, killVirtRegs(ra, V).MBB, m, {})
         /\ killVirtRegs(ra, V).UsedInInstr = ra.UsedInInstr
         /\ Kept(ra.MBB, KillFlagged(ra, V).MBB, m, {})
         /\ KillFlagged(ra, V).UsedInInstr = ra.UsedInInstr
<1> DEFINE f == KillFlagged(ra, V)
<1>1. Fields(f) /\ f.MBB = KillFlags(ra, V) /\ f.UsedInInstr = ra.UsedInInstr
  BY KillFlaggedKeeps, OtherMembers DEF KillFlagged
<1>2. killVirtRegs(ra, V) =
        [f EXCEPT !.PhysRegState = [p \in PhysReg |-> IF @[p] \in V THEN Free ELSE @[p]],
                  !.LiveVirtRegs = Drop(@, V)]
  BY DEF killVirtRegs
<1>3. Kept(ra.MBB, KillFlags(ra, V), m, {})
  BY FlagsKeepCode
<1> HIDE DEF f
<1>4. killVirtRegs(ra, V).MBB = f.MBB /\ killVirtRegs(ra, V).UsedInInstr = f.UsedInInstr
  BY <1>1, <1>2 DEF Fields
<1> QED BY <1>1, <1>3, <1>4 DEF f

LEMMA SpillKeepsCode ==
  ASSUME NEW ra, InOrder(ra), ra.MBB \in Seq(AInstr), NEW m \in 1 .. Len(ra.MBB),
         NEW V \in SUBSET DOMAIN ra.LiveVirtRegs
  PROVE  /\ Kept(ra.MBB, spillVirtRegs(ra, m, V).MBB, m, {})
         /\ spillVirtRegs(ra, m, V).UsedInInstr = ra.UsedInInstr
<1> DEFINE dirty == {v \in V : ra.LiveVirtRegs[v].Dirty}
           spillKill == {v \in dirty : ra.LiveVirtRegs[v].LastUse # m}
           stores == {[virt |-> v, phys |-> ra.LiveVirtRegs[v].PhysReg, load |-> FALSE,
                       kill |-> v \in spillKill] : v \in dirty}
           killers == [v \in Live(ra) |-> IF v \in spillKill
                         THEN [ra.LiveVirtRegs[v] EXCEPT !.LastUse = 0] ELSE ra.LiveVirtRegs[v]]
           code == [ra.MBB EXCEPT ![m].moves = IF stores = {} THEN @ ELSE Append(@, stores)]
           s1 == [ra EXCEPT !.StackSlots = @ \cup dirty]
           s2 == [s1 EXCEPT !.MBB = code]
           s3 == [s2 EXCEPT !.LiveVirtRegs = killers]
           stored == [ra EXCEPT !.StackSlots = @ \cup dirty, !.MBB = code,
                                !.LiveVirtRegs = killers]
<1>1. spillVirtRegs(ra, m, V) = killVirtRegs(stored, V)
  BY DEF spillVirtRegs
<1>2. \A v \in DOMAIN ra.LiveVirtRegs :
        v \in VirtReg /\ LiveReg(ra.LiveVirtRegs[v]) /\ ra.LiveVirtRegs[v].PhysReg \in PhysReg
  BY DEF InOrder, LiveOK
<1>3. \A v \in V : killers[v].PhysReg \in PhysReg
  <2> SUFFICES ASSUME NEW v \in V PROVE killers[v].PhysReg \in PhysReg
    OBVIOUS
  <2> HIDE DEF spillKill
  <2>1. LiveReg(ra.LiveVirtRegs[v]) /\ ra.LiveVirtRegs[v].PhysReg \in PhysReg
    BY <1>2
  <2>2. killers[v] \in {ra.LiveVirtRegs[v], [ra.LiveVirtRegs[v] EXCEPT !.LastUse = 0]}
    BY DEF Live
  <2> HIDE DEF killers
  <2> QED BY <2>1, <2>2 DEF LiveReg
<1>4. stores \in SUBSET Move /\ \A x \in stores : ~x.load
  <2> DEFINE store(v, kill) == [virt |-> v, phys |-> ra.LiveVirtRegs[v].PhysReg, load |-> FALSE,
                                kill |-> kill]
  <2>1. ASSUME NEW v \in dirty, NEW kill \in BOOLEAN
        PROVE  store(v, kill) \in Move /\ ~store(v, kill).load
    BY <1>2 DEF Move
  <2>2. \A v \in dirty : (v \in spillKill) \in BOOLEAN
    OBVIOUS
  <2> HIDE DEF spillKill
  <2>3. stores = {store(v, v \in spillKill) : v \in dirty}
    OBVIOUS
  <2> HIDE DEF store, stores, dirty
  <2> QED BY <2>1, <2>2, <2>3
<1> HIDE DEF dirty, killers, stores
<1>5. Kept(ra.MBB, code, m, {})
  <2>1. CASE stores = {}
    <3>1. code = ra.MBB
      <4>1. ra.MBB[m] \in AInstr
        OBVIOUS
      <4>2. [ra.MBB[m] EXCEPT !.moves = @] = ra.MBB[m]
        BY <4>1 DEF AInstr
      <4>3. code = [ra.MBB EXCEPT ![m] = [ra.MBB[m] EXCEPT !.moves = @]]
        BY <2>1
      <4> QED BY <4>2, <4>3
    <3> HIDE DEF code
    <3> QED BY <3>1, <1>4, MovesInserted
  <2>2. CASE stores # {}
    <3>1. code = [ra.MBB EXCEPT ![m].moves = Append(@, stores)]
      BY <2>2
    <3> HIDE DEF code
    <3> QED BY <3>1, <1>4, MovesInserted
  <2> QED BY <2>1, <2>2
<1> HIDE DEF code
<1>6. stored = s3
  OBVIOUS
<1> HIDE DEF stored
<1>7. Fields(s1) /\ s1.MBB = ra.MBB /\ s1.UsedInInstr = ra.UsedInInstr
  BY SetSlots, OtherMembers DEF InOrder
<1> HIDE DEF s1
<1>8. Fields(s2) /\ s2.MBB = code /\ s2.UsedInInstr = ra.UsedInInstr
  BY <1>7, SetCode, OtherMembers
<1> HIDE DEF s2
<1>9. Fields(s3) /\ s3.MBB = code /\ s3.UsedInInstr = ra.UsedInInstr /\ s3.LiveVirtRegs = killers
  BY <1>8, SetLive, OtherMembers
<1> HIDE DEF s3
<1>10. code \in Seq(AInstr)
  BY <1>5 DEF Kept
<1>11. Kept(code, killVirtRegs(s3, V).MBB, m, {}) /\ killVirtRegs(s3, V).UsedInInstr = s3.UsedInInstr
  BY <1>3, <1>9, <1>10, KillKeepsCode
<1> QED BY <1>1, <1>5, <1>6, <1>9, <1>11, KeptTwice

\* Who holds a register is live.
LEMMA HeldAreLive ==
  ASSUME NEW ra, InOrder(ra), NEW R \in SUBSET PhysReg
  PROVE  Held(ra, R) \in SUBSET DOMAIN ra.LiveVirtRegs
BY DEF Held, InOrder, MapsAgree

LEMMA DefinePhysKeepsCode ==
  ASSUME NEW ra, InOrder(ra), ra.MBB \in Seq(AInstr), NEW m \in 1 .. Len(ra.MBB),
         NEW p \in PhysReg, NEW new \in {Free, Reserved}
  PROVE  /\ Kept(ra.MBB, definePhysReg(ra, m, p, new).MBB, m, {})
         /\ ra.UsedInInstr \cup {p} \subseteq definePhysReg(ra, m, p, new).UsedInInstr
<1>1. CASE ra.PhysRegState[p] # Disabled
  <2> DEFINE V == Held(ra, {p})
             x == spillVirtRegs(ra, m, V)
             y == [x EXCEPT !.PhysRegState = [@ EXCEPT ![p] = new]]
             z == [y EXCEPT !.UsedInInstr = @ \cup {p}]
  <2>1. definePhysReg(ra, m, p, new) = z
    BY <1>1 DEF definePhysReg
  <2>2. V \in SUBSET DOMAIN ra.LiveVirtRegs
    BY HeldAreLive
  <2>3. Kept(ra.MBB, x.MBB, m, {}) /\ x.UsedInInstr = ra.UsedInInstr
    BY <2>2, SpillKeepsCode
  <2>4. Fields(x)
    BY <2>2, SpillVirtRegs DEF InOrder, LiveOK
  <2> HIDE DEF x
  <2>5. Fields(y) /\ y.MBB = x.MBB /\ y.UsedInInstr = x.UsedInInstr
    BY <2>4, SetState, OtherMembers
  <2> HIDE DEF y
  <2>6. z.MBB = y.MBB /\ z.UsedInInstr = y.UsedInInstr \cup {p}
    BY <2>5, OtherMembers
  <2> HIDE DEF z
  <2> QED BY <2>1, <2>3, <2>5, <2>6
<1>2. CASE ra.PhysRegState[p] = Disabled
  <2> DEFINE R == Until(p, {q \in PhysReg \ InState(ra, {Disabled}) : isSuperRegister(p, q)})
             V == Held(ra, R)
             x == spillVirtRegs(ra, m, V)
             y == [x EXCEPT !.PhysRegState =
                     [q \in PhysReg |-> IF q = p THEN new ELSE IF q \in R THEN Disabled ELSE @[q]]]
             z == [y EXCEPT !.UsedInInstr = @ \cup {p} \cup R]
  <2>1. definePhysReg(ra, m, p, new) = z
    BY <1>2 DEF definePhysReg
  <2>2. V \in SUBSET DOMAIN ra.LiveVirtRegs
    <3>1. R \subseteq PhysReg
      BY MachineAssumption DEF Until
    <3> HIDE DEF R
    <3> QED BY <3>1, HeldAreLive
  <2> HIDE DEF R
  <2>3. Kept(ra.MBB, x.MBB, m, {}) /\ x.UsedInInstr = ra.UsedInInstr
    BY <2>2, SpillKeepsCode
  <2>4. Fields(x)
    BY <2>2, SpillVirtRegs DEF InOrder, LiveOK
  <2> HIDE DEF x
  <2>5. Fields(y) /\ y.MBB = x.MBB /\ y.UsedInInstr = x.UsedInInstr
    BY <2>4, SetState, OtherMembers
  <2> HIDE DEF y
  <2>6. z.MBB = y.MBB /\ z.UsedInInstr = y.UsedInInstr \cup {p} \cup R
    BY <2>5, OtherMembers
  <2> HIDE DEF z
  <2> QED BY <2>1, <2>3, <2>5, <2>6
<1> QED BY <1>1, <1>2

LEMMA UsePhysKeepsCode ==
  ASSUME NEW ra, InOrder(ra), ra.MBB \in Seq(AInstr), NEW m \in 1 .. Len(ra.MBB), NEW p \in PhysReg
  PROVE  Kept(ra.MBB, usePhysReg(ra, m, p).MBB, m, {})
<1> DEFINE q == UsedAs(ra, p)
           others == IF ra.PhysRegState[p] # Disabled THEN {}
                     ELSE Until(p, InWorkingSet(ra, p)) \cap (InState(ra, {Free}) \ {q})
           c == ra.MBB
           d == [c EXCEPT ![m].kills = @ \cup {q}]
           new == [c[m] EXCEPT !.kills = @ \cup {q}]
           x == [ra EXCEPT !.PhysRegState =
                   [r \in PhysReg |-> IF r = q THEN Free ELSE IF r \in others THEN Disabled ELSE @[r]]]
           y == [x EXCEPT !.UsedInInstr = ra.UsedInInstr \cup {q}]
           z == [y EXCEPT !.MBB = d]
<1>1. q \in PhysReg
  <2>1. Until(p, InWorkingSet(ra, p)) \subseteq PhysReg
    BY MachineAssumption DEF Until
  <2> QED BY <2>1 DEF UsedAs
<1>2. usePhysReg(ra, m, p) = z
  BY DEF usePhysReg
<1> HIDE DEF q, others
<1>3. Fields(x)
  BY SetState DEF InOrder
<1> HIDE DEF x
<1>4. Fields(y)
  BY <1>3, SetUsed
<1> HIDE DEF y
<1>5. z.MBB = d
  BY <1>4, OtherMembers
<1>6. c[m] \in AInstr
  OBVIOUS
<1>7. new \in AInstr /\ new.ops = c[m].ops /\ new.kind = c[m].kind /\ new.moves = c[m].moves
  BY <1>1, <1>6 DEF AInstr
<1>8. d = [c EXCEPT ![m] = new]
  OBVIOUS
<1> HIDE DEF new, d, z
<1>9. d \in Seq(AInstr) /\ Len(d) = Len(c) /\ d[m] = new /\ \A i \in 1 .. Len(c) : i # m => d[i] = c[i]
  BY <1>7, <1>8
<1>10. \A i \in 1 .. Len(c) : Alike(c[i], d[i]) /\ SameRegs(c[i], d[i]) /\ Loads(d[i]) = Loads(c[i])
  BY <1>7, <1>9 DEF Alike, SameRegs, SameOperand, Loads
<1> QED BY <1>2, <1>5, <1>9, <1>10 DEF Kept

LEMMA AllocKeepsCode ==
  ASSUME NEW ra, InOrder(ra), ra.MBB \in Seq(AInstr), NEW m \in 1 .. Len(ra.MBB),
         NEW v \in VirtReg, NEW hint, Taken(ra, v, hint) # NoReg
  PROVE  /\ Kept(ra.MBB, allocVirtReg(ra, m, v, hint).MBB, m, {})
         /\ ra.UsedInInstr \subseteq allocVirtReg(ra, m, v, hint).UsedInInstr
<1> DEFINE p == Taken(ra, v, hint)
           x == IF calcSpillCost(ra, p) = 0 THEN ra ELSE definePhysReg(ra, m, p, Free)
           y == [x EXCEPT !.PhysRegState = [@ EXCEPT ![p] = v]]
           live == [u \in DOMAIN x.LiveVirtRegs \cup {v} |-> IF u = v THEN Entry(p)
                                                             ELSE x.LiveVirtRegs[u]]
           z == [y EXCEPT !.LiveVirtRegs = live]
<1>1. p \in PhysReg
  BY TakenIsPhys
<1>2. allocVirtReg(ra, m, v, hint) = z
  BY DEF allocVirtReg, Entry
<1> HIDE DEF p
<1>3. InOrder(x) /\ Kept(ra.MBB, x.MBB, m, {}) /\ ra.UsedInInstr \subseteq x.UsedInInstr
  <2>1. Kept(ra.MBB, ra.MBB, m, {})
    BY DEF Kept, Alike, SameRegs, SameOperand
  <2> QED BY <1>1, <2>1, DefinePhys, DefinePhysKeepsCode
<1> HIDE DEF x
<1>4. Fields(y) /\ y.MBB = x.MBB /\ y.UsedInInstr = x.UsedInInstr
  BY <1>3, SetState, OtherMembers DEF InOrder
<1> HIDE DEF y, live
<1>5. z.MBB = y.MBB /\ z.UsedInInstr = y.UsedInInstr
  BY <1>4, OtherMembers
<1> HIDE DEF z
<1> QED BY <1>2, <1>3, <1>4, <1>5

\* A register takes the place of an operand, and is used by the instruction.
LEMMA SeenPlaces ==
  ASSUME NEW ra, InOrder(ra), ra.MBB \in Seq(AInstr), NEW m \in 1 .. Len(ra.MBB),
         NEW k \in DOMAIN ra.MBB[m].ops, NEW v \in DOMAIN ra.LiveVirtRegs, NEW dirty
  PROVE  \E p \in PhysReg :
           /\ p = ra.LiveVirtRegs[v].PhysReg
           /\ Placed(ra.MBB, Seen(ra, m, k, v, dirty).MBB, m, k, p, {})
           /\ Seen(ra, m, k, v, dirty).UsedInInstr = ra.UsedInInstr \cup {p}
<1> DEFINE p == ra.LiveVirtRegs[v].PhysReg
           entry == [ra.LiveVirtRegs[v] EXCEPT !.LastUse = m, !.LastOpNum = k, !.Dirty = dirty]
           c == ra.MBB
           d == [c EXCEPT ![m].ops[k].reg = p]
           o == [c[m].ops[k] EXCEPT !.reg = p]
           ops == [c[m].ops EXCEPT ![k] = o]
           new == [c[m] EXCEPT !.ops = ops]
           x == [ra EXCEPT !.LiveVirtRegs = [ra.LiveVirtRegs EXCEPT ![v] = entry]]
           y == [x EXCEPT !.UsedInInstr = ra.UsedInInstr \cup {p}]
           z == [y EXCEPT !.MBB = d]
<1>1. p \in PhysReg
  BY DEF InOrder, LiveOK
<1>2. Seen(ra, m, k, v, dirty) = z
  BY DEF Seen
<1>3. Fields(x)
  BY SetLive DEF InOrder
<1> HIDE DEF x, entry, p
<1>4. Fields(y) /\ y.UsedInInstr = ra.UsedInInstr \cup {p}
  BY <1>3, SetUsed, OtherMembers
<1> HIDE DEF y
<1>5. z.MBB = d /\ z.UsedInInstr = y.UsedInInstr
  BY <1>4, OtherMembers
<1> HIDE DEF z
<1>6. c[m] \in AInstr /\ c[m].ops \in Seq(Operand)
  <2>1. c[m] \in AInstr
    OBVIOUS
  <2> QED BY <2>1 DEF AInstr
<1>7. o \in Operand /\ SameOperand(c[m].ops[k], o) /\ o.reg = p
  <2>1. c[m].ops[k] \in Operand
    BY <1>6
  <2> QED BY <1>1, <2>1 DEF Operand, SameOperand, Reg
<1>8. d = [c EXCEPT ![m] = new]
  OBVIOUS
<1> HIDE DEF o
<1>9. /\ ops \in Seq(Operand) /\ DOMAIN ops = DOMAIN c[m].ops
      /\ \A j \in DOMAIN c[m].ops : ops[j] = IF j = k THEN o ELSE c[m].ops[j]
  BY <1>6, <1>7
<1> HIDE DEF ops
<1>10. new \in AInstr /\ new.ops = ops /\ new.kind = c[m].kind /\ new.moves = c[m].moves
  BY <1>6, <1>9 DEF AInstr
<1> HIDE DEF new, d
<1>11. d \in Seq(AInstr) /\ Len(d) = Len(c) /\ d[m] = new /\ \A i \in 1 .. Len(c) : i # m => d[i] = c[i]
  BY <1>8, <1>10
<1>12. Alike(c[m], new) /\ Loads(new) = Loads(c[m])
  BY <1>7, <1>9, <1>10 DEF Alike, SameOperand, Loads
<1>13. \A i \in 1 .. Len(c) : i # m => Alike(c[i], d[i]) /\ SameRegs(c[i], d[i]) /\ Loads(d[i]) = Loads(c[i])
  BY <1>11 DEF Alike, SameOperand, SameRegs
<1>14. \A j \in DOMAIN c[m].ops : new.ops[j].reg = IF j = k THEN p ELSE c[m].ops[j].reg
  BY <1>7, <1>9, <1>10
<1>15. Placed(c, d, m, k, p, {})
  BY <1>11, <1>12, <1>13, <1>14 DEF Placed
<1> QED BY <1>1, <1>2, <1>4, <1>5, <1>15 DEF p

LEMMA DefineVirtPlaces ==
  ASSUME NEW ra, InOrder(ra), ra.MBB \in Seq(AInstr), NEW m \in 1 .. Len(ra.MBB),
         NEW k \in DOMAIN ra.MBB[m].ops, NEW v \in VirtReg, NEW hint,
         ~OutOfRegisters(ra, v, HintFor(ra, v, hint))
  PROVE  LET next == defineVirtReg(ra, m, k, v, hint)
         IN \E p \in PhysReg : /\ Placed(ra.MBB, next.MBB, m, k, p, {})
                               /\ ra.UsedInInstr \cup {p} \subseteq next.UsedInInstr
<1> DEFINE x == IF v \in Live(ra)
                  THEN KillFlagged(ra, {v})
                  ELSE allocVirtReg(ra, m, v, HintFor(ra, v, hint))
<1>1. /\ InOrder(x) /\ v \in DOMAIN x.LiveVirtRegs
      /\ Kept(ra.MBB, x.MBB, m, {}) /\ ra.UsedInInstr \subseteq x.UsedInInstr
  <2>1. CASE v \in Live(ra)
    <3>1. InOrder(KillFlagged(ra, {v})) /\ KillFlagged(ra, {v}).LiveVirtRegs = ra.LiveVirtRegs
      BY KillFlaggedKeeps DEF InOrder
    <3>2. Fields(ra) /\ \A u \in {v} : ra.LiveVirtRegs[u].PhysReg \in PhysReg
      BY <2>1 DEF InOrder, LiveOK, Live
    <3> QED BY <2>1, <3>1, <3>2, KillKeepsCode DEF Live
  <2>2. CASE v \notin Live(ra)
    BY <2>2, Alloc, AllocKeepsCode DEF Live, OutOfRegisters
  <2> QED BY <2>1, <2>2
<1> DEFINE yes == TRUE
<1>2. defineVirtReg(ra, m, k, v, hint) = Seen(x, m, k, v, yes)
  BY DEF defineVirtReg
<1> HIDE DEF x, yes
<1>3. x.MBB \in Seq(AInstr) /\ m \in 1 .. Len(x.MBB) /\ k \in DOMAIN x.MBB[m].ops
  BY <1>1 DEF Kept, Alike
<1>4. PICK p \in PhysReg :
        /\ Placed(x.MBB, Seen(x, m, k, v, yes).MBB, m, k, p, {})
        /\ Seen(x, m, k, v, yes).UsedInInstr = x.UsedInInstr \cup {p}
  <2>1. \E q \in PhysReg :
           /\ q = x.LiveVirtRegs[v].PhysReg
           /\ Placed(x.MBB, Seen(x, m, k, v, yes).MBB, m, k, q, {})
           /\ Seen(x, m, k, v, yes).UsedInInstr = x.UsedInInstr \cup {q}
    BY <1>1, <1>3, SeenPlaces
  <2> QED BY <2>1
<1>5. Placed(ra.MBB, Seen(x, m, k, v, yes).MBB, m, k, p, {} \cup {})
  BY <1>1, <1>4, KeptAndPlaced
<1> QED BY <1>1, <1>2, <1>4, <1>5

\* A kill flag is set.
LEMMA KillSet ==
  ASSUME NEW c \in Seq(AInstr), NEW m \in 1 .. Len(c), NEW k \in DOMAIN c[m].ops, NEW last \in BOOLEAN
  PROVE  Kept(c, [c EXCEPT ![m].ops[k].kill = last], m, {})
<1> DEFINE d == [c EXCEPT ![m].ops[k].kill = last]
           o == [c[m].ops[k] EXCEPT !.kill = last]
           ops == [c[m].ops EXCEPT ![k] = o]
           new == [c[m] EXCEPT !.ops = ops]
<1>6. c[m] \in AInstr /\ c[m].ops \in Seq(Operand)
  <2>1. c[m] \in AInstr
    OBVIOUS
  <2> QED BY <2>1 DEF AInstr
<1>7. o \in Operand /\ SameOperand(c[m].ops[k], o) /\ o.reg = c[m].ops[k].reg
  <2>1. c[m].ops[k] \in Operand
    BY <1>6
  <2> QED BY <2>1 DEF Operand, SameOperand
<1>8. d = [c EXCEPT ![m] = new]
  OBVIOUS
<1> HIDE DEF o
<1>9. /\ ops \in Seq(Operand) /\ DOMAIN ops = DOMAIN c[m].ops
      /\ \A j \in DOMAIN c[m].ops : ops[j] = IF j = k THEN o ELSE c[m].ops[j]
  BY <1>6, <1>7
<1> HIDE DEF ops
<1>10. new \in AInstr /\ new.ops = ops /\ new.kind = c[m].kind /\ new.moves = c[m].moves
  BY <1>6, <1>9 DEF AInstr
<1> HIDE DEF new, d
<1>11. d \in Seq(AInstr) /\ Len(d) = Len(c) /\ d[m] = new /\ \A i \in 1 .. Len(c) : i # m => d[i] = c[i]
  BY <1>8, <1>10
<1>12. \A i \in 1 .. Len(c) : Alike(c[i], d[i]) /\ SameRegs(c[i], d[i]) /\ Loads(d[i]) = Loads(c[i])
  BY <1>7, <1>9, <1>10, <1>11 DEF Alike, SameOperand, SameRegs, Loads
<1> QED BY <1>11, <1>12 DEF Kept, d

LEMMA SeenKeepsLive ==
  ASSUME NEW ra, InOrder(ra), NEW m, NEW k, NEW v, NEW dirty
  PROVE  DOMAIN Seen(ra, m, k, v, dirty).LiveVirtRegs = DOMAIN ra.LiveVirtRegs
<1> DEFINE live == [ra.LiveVirtRegs EXCEPT ![v] =
                      [@ EXCEPT !.LastUse = m, !.LastOpNum = k, !.Dirty = dirty]]
           x == [ra EXCEPT !.LiveVirtRegs = live]
           y == [x EXCEPT !.UsedInInstr = ra.UsedInInstr \cup {ra.LiveVirtRegs[v].PhysReg}]
           z == [y EXCEPT !.MBB = [ra.MBB EXCEPT ![m].ops[k].reg = ra.LiveVirtRegs[v].PhysReg]]
<1>1. Seen(ra, m, k, v, dirty) = z
  BY DEF Seen
<1>2. DOMAIN live = DOMAIN ra.LiveVirtRegs
  OBVIOUS
<1> HIDE DEF live
<1>3. Fields(x) /\ x.LiveVirtRegs = live
  BY SetLive DEF InOrder
<1> HIDE DEF x
<1>4. Fields(y) /\ y.LiveVirtRegs = live
  BY <1>3, SetUsed
<1> HIDE DEF y
<1>5. z.LiveVirtRegs = live
  BY <1>4, SetCode
<1> HIDE DEF z
<1> QED BY <1>1, <1>2, <1>5

\* What is loaded is loaded into the register that takes the operand's place.
LEMMA ReloadVirtPlaces ==
  ASSUME NEW ra, InOrder(ra), ra.MBB \in Seq(AInstr), NEW m \in 1 .. Len(ra.MBB),
         NEW k \in DOMAIN ra.MBB[m].ops, NEW v \in VirtReg, NEW hint, ~OutOfRegisters(ra, v, hint)
  PROVE  LET next == reloadVirtReg(ra, m, k, v, hint)
         IN /\ v \in DOMAIN next.LiveVirtRegs
            /\ \E p \in PhysReg : /\ Placed(ra.MBB, next.MBB, m, k, p, {p})
                                  /\ ra.UsedInInstr \cup {p} \subseteq next.UsedInInstr
<1>1. CASE v \in Live(ra)
  <2> DEFINE dirty == ra.LiveVirtRegs[v].Dirty
             last == dirty /\ isLastUseOfLocalReg(ra, m, k, v)
             d == [ra.MBB EXCEPT ![m].ops[k].kill = last]
             x == [ra EXCEPT !.MBB = d]
             next == Seen(x, m, k, v, dirty)
  <2>1. reloadVirtReg(ra, m, k, v, hint) = next
    BY <1>1 DEF reloadVirtReg
  <2>2. InOrder(x)
    BY CodeKeepsOrder
  <2>3. x.LiveVirtRegs = ra.LiveVirtRegs /\ x.UsedInInstr = ra.UsedInInstr /\ x.MBB = d
    BY SetCode, OtherMembers DEF InOrder
  <2>4. Kept(ra.MBB, d, m, {})
    BY KillSet
  <2> HIDE DEF x, dirty, d
  <2>5. d \in Seq(AInstr) /\ m \in 1 .. Len(d) /\ k \in DOMAIN d[m].ops
    BY <2>4 DEF Kept, Alike
  <2>6. PICK p \in PhysReg : Placed(d, next.MBB, m, k, p, {}) /\ next.UsedInInstr = x.UsedInInstr \cup {p}
    <3>1. \E q \in PhysReg :
           /\ q = x.LiveVirtRegs[v].PhysReg
           /\ Placed(x.MBB, Seen(x, m, k, v, dirty).MBB, m, k, q, {})
           /\ Seen(x, m, k, v, dirty).UsedInInstr = x.UsedInInstr \cup {q}
      <4>1. x.MBB \in Seq(AInstr) /\ m \in 1 .. Len(x.MBB) /\ k \in DOMAIN x.MBB[m].ops
        BY <2>3, <2>5
      <4>2. v \in DOMAIN x.LiveVirtRegs
        BY <1>1, <2>3 DEF Live
      <4> QED BY <2>2, <4>1, <4>2, SeenPlaces
    <3> QED BY <3>1, <2>3
  <2>7. Placed(ra.MBB, next.MBB, m, k, p, {} \cup {})
    BY <2>4, <2>6, KeptAndPlaced
  <2>8. Placed(ra.MBB, next.MBB, m, k, p, {p})
    BY <2>7 DEF Placed
  <2>9. v \in DOMAIN next.LiveVirtRegs
    BY <1>1, <2>2, <2>3, SeenKeepsLive DEF Live
  <2> HIDE DEF next
  <2> QED BY <2>1, <2>3, <2>6, <2>8, <2>9
<1>2. CASE v \notin Live(ra)
  <2> DEFINE x == allocVirtReg(ra, m, v, hint)
             load == [virt |-> v, phys |-> x.LiveVirtRegs[v].PhysReg, load |-> TRUE, kill |-> FALSE]
             d == [x.MBB EXCEPT ![m].moves = Append(@, {load})]
             y == [x EXCEPT !.StackSlots = @ \cup {v}]
             z == [y EXCEPT !.MBB = d]
             no == FALSE
             next == Seen(z, m, k, v, no)
  <2>1. reloadVirtReg(ra, m, k, v, hint) = next
    BY <1>2 DEF reloadVirtReg
  <2> HIDE DEF no
  <2>2. InOrder(x) /\ v \in DOMAIN x.LiveVirtRegs
    BY <1>2, Alloc DEF Live, OutOfRegisters
  <2>3. Kept(ra.MBB, x.MBB, m, {}) /\ ra.UsedInInstr \subseteq x.UsedInInstr
    BY <1>2, AllocKeepsCode DEF OutOfRegisters
  <2> HIDE DEF x
  <2>4. InOrder(y) /\ y.LiveVirtRegs = x.LiveVirtRegs /\ y.UsedInInstr = x.UsedInInstr
    BY <2>2, SetSlots, OtherMembers DEF InOrder
  <2> HIDE DEF y
  <2>5. InOrder(z) /\ z.LiveVirtRegs = y.LiveVirtRegs
    BY <2>4, SetCode DEF InOrder
  <2>6. z.UsedInInstr = y.UsedInInstr /\ z.MBB = d
    BY <2>4, OtherMembers DEF InOrder
  <2>7. x.MBB \in Seq(AInstr) /\ m \in 1 .. Len(x.MBB)
    BY <2>3 DEF Kept
  <2>8. {load} \in SUBSET Move /\ \A l \in {load} : l.load => l.phys \in {x.LiveVirtRegs[v].PhysReg}
    BY <2>2 DEF Move, InOrder, LiveOK
  <2> HIDE DEF load
  <2>9. Kept(x.MBB, d, m, {x.LiveVirtRegs[v].PhysReg})
    BY <2>7, <2>8, MovesInserted
  <2> HIDE DEF d, z
  <2>10. Kept(ra.MBB, d, m, {x.LiveVirtRegs[v].PhysReg})
    BY <2>3, <2>9, KeptTwice
  <2>11. d \in Seq(AInstr) /\ m \in 1 .. Len(d) /\ k \in DOMAIN d[m].ops
    BY <2>10 DEF Kept, Alike
  <2>12. PICK p \in PhysReg : /\ p = z.LiveVirtRegs[v].PhysReg
                              /\ Placed(d, next.MBB, m, k, p, {})
                              /\ next.UsedInInstr = z.UsedInInstr \cup {p}
    <3>1. \E q \in PhysReg :
           /\ q = z.LiveVirtRegs[v].PhysReg
           /\ Placed(z.MBB, Seen(z, m, k, v, no).MBB, m, k, q, {})
           /\ Seen(z, m, k, v, no).UsedInInstr = z.UsedInInstr \cup {q}
      <4>1. z.MBB \in Seq(AInstr) /\ m \in 1 .. Len(z.MBB) /\ k \in DOMAIN z.MBB[m].ops
        BY <2>6, <2>11
      <4>2. v \in DOMAIN z.LiveVirtRegs
        BY <2>2, <2>4, <2>5
      <4> QED BY <2>5, <4>1, <4>2, SeenPlaces
    <3> QED BY <3>1, <2>6
  <2>13. Placed(ra.MBB, next.MBB, m, k, p, {x.LiveVirtRegs[v].PhysReg} \cup {})
    BY <2>10, <2>12, KeptAndPlaced
  <2>14. {x.LiveVirtRegs[v].PhysReg} \cup {} = {p}
    BY <2>4, <2>5, <2>12
  <2>15. v \in DOMAIN next.LiveVirtRegs
    <3>1. DOMAIN Seen(z, m, k, v, no).LiveVirtRegs = DOMAIN z.LiveVirtRegs
      BY <2>5, SeenKeepsLive
    <3> QED BY <2>2, <2>4, <2>5, <3>1
  <2> HIDE DEF next
  <2> QED BY <2>1, <2>3, <2>4, <2>6, <2>12, <2>13, <2>14, <2>15
<1> QED BY <1>1, <1>2

-----------------------------------------------------------------------------
(* The invariant of the code. Instructions before MI are allocated, those      *)
(* behind it are as they were given, and what is true of the one at MI depends *)
(* on the scan.                                                                *)

\* x is an instruction g some virtual registers of which were given physical ones.
Matches(g, x) ==
  /\ Alike(g, x)
  /\ \A k \in DOMAIN g.ops :
       \/ x.ops[k].reg = g.ops[k].reg
       \/ g.ops[k].reg \in VirtReg /\ x.ops[k].reg \in PhysReg

Fresh(g, x) == Alike(g, x) /\ SameRegs(g, x) /\ Loads(x) = {}

\* All of what an allocated instruction writes is recorded.
Done(x, recorded) ==
  /\ \A k \in DOMAIN x.ops : x.ops[k].reg \in PhysReg
  /\ (Loads(x) \cup {x.ops[k].reg : k \in Defs(x)}) \cap Allocatable \subseteq recorded

CodeOK(c, g, m, recorded) ==
  /\ c \in Seq(AInstr) /\ g \in Seq(Instr) /\ Len(c) = Len(g) /\ m \in 1 .. Len(c)
  /\ \A i \in 1 .. Len(c) : i < m => Done(c[i], recorded)
  /\ \A i \in 1 .. Len(c) : i > m => Fresh(g[i], c[i])

\* What is loaded or clobbered early is in R.
EarlyIn(x, R) ==
  /\ Loads(x) \cap Allocatable \subseteq R
  /\ \A k \in Defs(x) : x.ops[k].early =>
       x.ops[k].reg \in PhysReg /\ (x.ops[k].reg \in Allocatable => x.ops[k].reg \in R)

VirtEnd(g) == {k \in DOMAIN g.ops : \E j \in DOMAIN g.ops : j >= k /\ IsVirt(g.ops[j])}

ThroughDone(x, n) ==
  /\ Loads(x) \subseteq {x.ops[k].reg : k \in Uses(x)}
  /\ \A k \in Defs(x) : x.ops[k].early /\ k < n => x.ops[k].reg \in PhysReg

UsesDone(x, n) == \A k \in Uses(x) : k < n => x.ops[k].reg \in PhysReg

DefsDone(g, x, n, used) ==
  \A k \in Defs(x) : ~x.ops[k].early /\ k < n =>
    /\ x.ops[k].reg \in PhysReg
    /\ x.ops[k].reg \in Allocatable /\ (g.kind = "call" => k \in VirtEnd(g)) => x.ops[k].reg \in used

\* The instruction at MI in each phase, when its scan has come to operand n.
InstrOK(scan, g, x, n, used, recorded) ==
  /\ Matches(g, x)
  /\ scan \in {"instr", "first", "collide"} => Fresh(g, x)
  /\ scan = "through" => ThroughDone(x, n)
  /\ scan = "uses" => EarlyIn(x, used) /\ UsesDone(x, n)
  /\ scan = "defs" => /\ EarlyIn(x, recorded) /\ UsesDone(x, Len(x.ops) + 1)
                      /\ DefsDone(g, x, n, used)

\* The block as it was given, with the empty instruction at its end.
Source == Append(fn[Current].code, [kind |-> "op", ops |-> <<>>])

CodeInv ==
  /\ fn \in Functions /\ op \in Nat
  /\ unreachable => phase \in {"first", "through", "uses", "defs"}
  /\ blocks \in Seq(Seq(AInstr))
  /\ \A b \in DOMAIN blocks : \A i \in DOMAIN blocks[b] : Done(blocks[b][i], PhysRegsUsed)
  /\ phase \notin {"block", "run"} =>
       /\ Current \in DOMAIN fn
       /\ CodeOK(MBB, Source, MI, PhysRegsUsed)
       /\ phase # "instr" => MI < Len(MBB)
       /\ ~unreachable => InstrOK(phase, Source[MI], MBB[MI], op, UsedInInstr, PhysRegsUsed)

\* The code before MI stays allocated and the code behind it as it was given, whatever an
\* operation does to the instruction at MI.
LEMMA CodeStaysOK ==
  ASSUME NEW c, NEW d, NEW g, NEW m, NEW recorded, NEW k, NEW p, NEW L, CodeOK(c, g, m, recorded),
         Kept(c, d, m, L) \/ Placed(c, d, m, k, p, L)
  PROVE  CodeOK(d, g, m, recorded)
<1>1. /\ d \in Seq(AInstr) /\ Len(d) = Len(c)
      /\ \A i \in 1 .. Len(c) : i # m =>
           Alike(c[i], d[i]) /\ SameRegs(c[i], d[i]) /\ Loads(d[i]) \subseteq Loads(c[i])
  BY DEF Kept, Placed
<1>2. ASSUME NEW i \in 1 .. Len(c), i < m
      PROVE  Done(d[i], recorded)
  <2>1. Done(c[i], recorded)
    BY <1>2 DEF CodeOK
  <2>2. Alike(c[i], d[i]) /\ SameRegs(c[i], d[i]) /\ Loads(d[i]) \subseteq Loads(c[i])
    BY <1>1, <1>2 DEF CodeOK
  <2>3. {d[i].ops[j].reg : j \in Defs(d[i])} \subseteq {c[i].ops[j].reg : j \in Defs(c[i])}
    BY <2>2 DEF Alike, SameRegs, SameOperand, Defs
  <2> QED BY <2>1, <2>2, <2>3 DEF Done, Alike, SameRegs
<1>3. ASSUME NEW i \in 1 .. Len(c), i > m
      PROVE  Fresh(g[i], d[i])
  <2>1. Fresh(g[i], c[i])
    BY <1>3 DEF CodeOK
  <2>2. Alike(c[i], d[i]) /\ SameRegs(c[i], d[i]) /\ Loads(d[i]) \subseteq Loads(c[i])
    BY <1>1, <1>3 DEF CodeOK
  <2> QED BY <2>1, <2>2 DEF Fresh, Alike, SameRegs, SameOperand
<1> QED BY <1>1, <1>2, <1>3 DEF CodeOK

\* More may be recorded.
LEMMA MoreRecorded ==
  ASSUME NEW c, NEW g, NEW m, NEW r, NEW s, CodeOK(c, g, m, r), r \subseteq s
  PROVE  CodeOK(c, g, m, s)
BY DEF CodeOK, Done

\* An operation that keeps the instruction at MI keeps what is true of it.
LEMMA InstrKept ==
  ASSUME NEW scan, NEW g, NEW x, NEW y, NEW n, NEW used, NEW more, NEW recorded,
         InstrOK(scan, g, x, n, used, recorded), used \subseteq more,
         Alike(x, y), SameRegs(x, y), Loads(y) \subseteq Loads(x), x.ops \in Seq(Operand), y.ops \in Seq(Operand)
  PROVE  InstrOK(scan, g, y, n, more, recorded)
<1>1. Matches(g, y)
  BY DEF InstrOK, Matches, Alike, SameRegs, SameOperand
<1>2. Fresh(g, x) => Fresh(g, y)
  BY DEF Fresh, Alike, SameRegs, SameOperand
<1>3. Uses(y) = Uses(x) /\ Defs(y) = Defs(x)
  BY DEF Alike, SameOperand, Uses, Defs
<1>4. \A k \in DOMAIN x.ops : y.ops[k].reg = x.ops[k].reg /\ y.ops[k].early = x.ops[k].early
  BY DEF Alike, SameRegs, SameOperand
<1>5. Uses(x) \subseteq DOMAIN x.ops /\ Defs(x) \subseteq DOMAIN x.ops
  BY DEF Uses, Defs
<1>6. ThroughDone(x, n) => ThroughDone(y, n)
  BY <1>3, <1>4, <1>5 DEF ThroughDone
<1>7. \A k : UsesDone(x, k) => UsesDone(y, k)
  BY <1>3, <1>4, <1>5 DEF UsesDone
<1>8. \A R, S : EarlyIn(x, R) /\ R \subseteq S => EarlyIn(y, S)
  BY <1>3, <1>4, <1>5 DEF EarlyIn
<1>9. DefsDone(g, x, n, used) => DefsDone(g, y, n, more)
  BY <1>3, <1>4, <1>5 DEF DefsDone
<1>10. Len(y.ops) = Len(x.ops)
  <2>1. DOMAIN x.ops = 1 .. Len(x.ops) /\ DOMAIN y.ops = 1 .. Len(y.ops) /\ Len(x.ops) \in Nat /\ Len(y.ops) \in Nat
    OBVIOUS
  <2>2. DOMAIN x.ops = DOMAIN y.ops
    BY DEF Alike
  <2> QED BY <2>1, <2>2
<1> QED BY <1>1, <1>2, <1>6, <1>7, <1>8, <1>9, <1>10 DEF InstrOK

\* The operands a scan has something to do for have all been come by when no next one is left.
LEMMA NoneLeft ==
  ASSUME op \in Nat, NEW N \in Nat, NEW I \in SUBSET (1 .. N), Next1(I) = {}
  PROVE  \A j \in I : j < op
<1> SUFFICES ASSUME NEW j \in I, j >= op PROVE FALSE
  OBVIOUS
<1> DEFINE J == {i \in I : i >= op}
<1>1. J \in SUBSET (1 .. N) /\ J # {}
  OBVIOUS
<1>2. PICK k \in J : \A i \in J : k <= i
  BY <1>1, Least
<1>3. k \in Next1(I)
  BY <1>2 DEF Next1
<1> QED BY <1>3

\* A step of a scan that changes the code and what the instruction uses.
LEMMA ScanStep ==
  ASSUME CodeInv, NEW L, NEW k, NEW p, phase \notin {"block", "run", "instr"},
         UNCHANGED <<fn, phase, PhysRegsUsed, MI, blocks, unreachable>>, ~unreachable, op' \in Nat,
         Kept(MBB, MBB', MI, L) \/ Placed(MBB, MBB', MI, k, p, L),
         InstrOK(phase, Source[MI], MBB'[MI], op', UsedInInstr', PhysRegsUsed)
  PROVE  CodeInv'
<1>1. CodeOK(MBB', Source, MI, PhysRegsUsed)
  BY CodeStaysOK DEF CodeInv
<1>2. Len(MBB') = Len(MBB)
  BY DEF Kept, Placed
<1>3. Source' = Source /\ Current' = Current
  BY DEF Source, Current
<1>4. CodeOK(MBB, Source, MI, PhysRegsUsed)' 
  BY <1>1, <1>3
<1>5. InstrOK(phase, Source[MI], MBB[MI], op, UsedInInstr, PhysRegsUsed)'
  BY <1>3
<1> QED BY <1>2, <1>3, <1>4, <1>5 DEF CodeInv

LEMMA FailStep ==
  ASSUME CodeInv, Fails, phase \in {"first", "through", "uses", "defs"},
         UNCHANGED <<fn, phase, PhysRegsUsed, MI, blocks>>, op' \in Nat
  PROVE  CodeInv'
<1>1. Source' = Source /\ Current' = Current
  BY DEF Source, Current
<1>2. CodeOK(MBB, Source, MI, PhysRegsUsed)' <=> CodeOK(MBB, Source, MI, PhysRegsUsed)
  BY <1>1 DEF Fails
<1> QED BY <1>1, <1>2 DEF CodeInv, Fails

\* Where a scan is, and what it is given.
LEMMA AtInstr ==
  ASSUME IInv, CodeInv, phase \notin {"block", "run"}
  PROVE  /\ MBB \in Seq(AInstr) /\ MI \in 1 .. Len(MBB) /\ MBB[MI] \in AInstr
         /\ Ops = MBB[MI].ops /\ Ops \in Seq(Operand) /\ Len(Ops) \in Nat /\ DOMAIN Ops = 1 .. Len(Ops)
         /\ InOrder(RAFast) /\ RAFast.MBB = MBB /\ RAFast.UsedInInstr = UsedInInstr
         /\ phase # "instr" => Source[MI] = Given /\ Given \in Instr
<1>1. CodeOK(MBB, Source, MI, PhysRegsUsed) /\ Current \in DOMAIN fn /\ (phase # "instr" => MI < Len(MBB))
  BY DEF CodeInv
<1>2. MBB \in Seq(AInstr) /\ MI \in 1 .. Len(MBB) /\ Len(MBB) = Len(Source)
  BY <1>1 DEF CodeOK
<1>3. MBB[MI] \in AInstr
  BY <1>2
<1>4. Ops = MBB[MI].ops /\ Ops \in Seq(Operand)
  BY <1>3 DEF Ops, AInstr
<1>5. fn[Current].code \in Seq(Instr)
  <2>1. fn \in Seq(Block)
    BY RegAllocAssumption DEF CodeInv
  <2>2. fn[Current] \in Block
    BY <1>1, <2>1
  <2> QED BY <2>2 DEF Block
<1>6. ASSUME phase # "instr" PROVE Source[MI] = Given /\ Given \in Instr
  <2>1. Len(Source) = Len(fn[Current].code) + 1
    BY <1>5 DEF Source
  <2>2. MI \in 1 .. Len(fn[Current].code)
    BY <1>1, <1>2, <1>6, <2>1, <1>5
  <2> QED BY <1>5, <2>2 DEF Source, Given
<1>7. InOrder(RAFast) /\ RAFast.MBB = MBB /\ RAFast.UsedInInstr = UsedInInstr
  BY DEF IInv, RAFast
<1> QED BY <1>2, <1>3, <1>4, <1>6, <1>7

LEMMA FreshMatches == \A g, x : Fresh(g, x) => Matches(g, x)
BY DEF Fresh, Matches, SameRegs, Alike

\* What was not touched is as it was given.
LEMMA UntouchedIsFresh ==
  ASSUME NEW code \in Seq(Instr)
  PROVE  LET g == Append(code, [kind |-> "op", ops |-> <<>>])
         IN /\ Untouched(code) \in Seq(AInstr) /\ g \in Seq(Instr)
            /\ Len(g) = Len(code) + 1 /\ Len(Untouched(code)) = Len(g)
            /\ \A i \in 1 .. Len(g) : Fresh(g[i], Untouched(code)[i])
<1> DEFINE end == [kind |-> "op", ops |-> <<>>]
           g == Append(code, end)
           new(x) == [kind |-> x.kind, ops |-> x.ops, moves |-> <<>>, kills |-> {}, gone |-> FALSE]
           init == [i \in DOMAIN code |-> new(code[i])]
<1>1. Untouched(code) = Append(init, new(end))
  BY DEF Untouched
<1>2. end \in Instr
  BY DEF Instr, InstrKind
<1>3. ASSUME NEW x \in Instr PROVE new(x) \in AInstr /\ Fresh(x, new(x))
  <2>1. new(x) \in AInstr
    BY DEF Instr, AInstr
  <2>2. new(x).kind = x.kind /\ new(x).ops = x.ops /\ new(x).moves = <<>>
    OBVIOUS
  <2> HIDE DEF new
  <2>3. Loads(new(x)) = {}
    BY <2>2 DEF Loads
  <2> QED BY <2>1, <2>2, <2>3 DEF Fresh, Alike, SameRegs, SameOperand
<1> HIDE DEF new, end
<1>4. init \in Seq(AInstr) /\ Len(init) = Len(code) /\ \A i \in 1 .. Len(code) : init[i] = new(code[i])
  BY <1>3
<1> HIDE DEF init
<1>5. /\ g \in Seq(Instr) /\ Len(g) = Len(code) + 1
      /\ \A i \in 1 .. Len(g) : g[i] = IF i = Len(code) + 1 THEN end ELSE code[i]
  BY <1>2
<1>6. /\ Append(init, new(end)) \in Seq(AInstr) /\ Len(Append(init, new(end))) = Len(code) + 1
      /\ \A i \in 1 .. Len(g) : Append(init, new(end))[i] = new(g[i])
  BY <1>2, <1>3, <1>4, <1>5
<1>7. \A i \in 1 .. Len(g) : g[i] \in Instr
  BY <1>5
<1> QED BY <1>1, <1>3, <1>5, <1>6, <1>7 DEF end

LEMMA CodeInitially == Init => CodeInv
<1> SUFFICES ASSUME Init PROVE CodeInv
  OBVIOUS
<1>1. fn \in Functions /\ op = 1 /\ unreachable = FALSE /\ blocks = <<>> /\ phase = "block"
  BY DEF Init
<1> QED BY <1>1 DEF CodeInv

LEMMA BeginBlockCode == IInv /\ CodeInv /\ BeginBlock => CodeInv'
<1> SUFFICES ASSUME IInv, CodeInv, BeginBlock PROVE CodeInv'
  OBVIOUS
<1>1. /\ Current \in DOMAIN fn /\ MBB' = Untouched(fn[Current].code) /\ MI' = 1 /\ phase' = "instr"
      /\ UNCHANGED <<fn, op, unreachable, blocks, PhysRegsUsed>> /\ phase = "block"
  BY DEF BeginBlock
<1>2. Source' = Source /\ Current' = Current
  BY <1>1 DEF Source, Current
<1>3. fn[Current].code \in Seq(Instr)
  <2>1. fn \in Seq(Block)
    BY RegAllocAssumption DEF CodeInv
  <2>2. fn[Current] \in Block
    BY <1>1, <2>1
  <2> QED BY <2>2 DEF Block
<1>4. /\ MBB' \in Seq(AInstr) /\ Source \in Seq(Instr) /\ Len(Source) \in Nat \ {0} /\ Len(MBB') = Len(Source)
      /\ \A i \in 1 .. Len(Source) : Fresh(Source[i], MBB'[i])
  BY <1>1, <1>3, UntouchedIsFresh DEF Source
<1>5. CodeOK(MBB, Source, MI, PhysRegsUsed)'
  BY <1>1, <1>2, <1>4 DEF CodeOK
<1>6. InstrOK(phase, Source[MI], MBB[MI], op, UsedInInstr, PhysRegsUsed)'
  BY <1>1, <1>2, <1>4, FreshMatches DEF InstrOK
<1> QED BY <1>1, <1>2, <1>5, <1>6 DEF CodeInv

LEMMA BeginInstrCode == IInv /\ CodeInv /\ BeginInstr => CodeInv'
<1> SUFFICES ASSUME IInv, CodeInv, BeginInstr PROVE CodeInv'
  OBVIOUS
<1>1. /\ MI < Len(MBB) /\ op' = 1 /\ phase = "instr" /\ phase' = "first"
      /\ UNCHANGED <<fn, MBB, MI, unreachable, blocks, PhysRegsUsed>>
  BY DEF BeginInstr
<1>2. Source' = Source /\ Current' = Current
  BY <1>1 DEF Source, Current
<1>3. InstrOK("instr", Source[MI], MBB[MI], op, UsedInInstr, PhysRegsUsed)
  BY <1>1 DEF CodeInv
<1>4. InstrOK(phase, Source[MI], MBB[MI], op, UsedInInstr, PhysRegsUsed)'
  BY <1>1, <1>2, <1>3 DEF InstrOK
<1> QED BY <1>1, <1>2, <1>4 DEF CodeInv

\* In the first scans the instruction stays as it was given.
LEMMA FirstScanCode ==
  IInv /\ CodeInv /\ (ScanUsePhysReg \/ ScanEarlyPhysReg \/ CollidingPhysDef) => CodeInv'
<1> SUFFICES ASSUME IInv, CodeInv PROVE ScanUsePhysReg \/ ScanEarlyPhysReg \/ CollidingPhysDef => CodeInv'
  OBVIOUS
<1>1. ASSUME phase \in {"first", "collide"}, ~unreachable, Kept(MBB, MBB', MI, {}), op' \in Nat,
             UNCHANGED <<fn, phase, PhysRegsUsed, MI, blocks, unreachable>>
      PROVE  CodeInv'
  <2>1. Fresh(Source[MI], MBB[MI])
    BY <1>1 DEF CodeInv, InstrOK
  <2>2. Alike(MBB[MI], MBB'[MI]) /\ SameRegs(MBB[MI], MBB'[MI]) /\ Loads(MBB'[MI]) \subseteq Loads(MBB[MI])
    BY <1>1, AtInstr DEF Kept
  <2>3. Fresh(Source[MI], MBB'[MI])
    BY <2>1, <2>2 DEF Fresh, Alike, SameRegs, SameOperand
  <2>4. InstrOK(phase, Source[MI], MBB'[MI], op', UsedInInstr', PhysRegsUsed)
    BY <1>1, <2>3, FreshMatches DEF InstrOK
  <2> QED BY <1>1, <2>4, ScanStep
<1>2. ASSUME ScanUsePhysReg PROVE CodeInv'
  <2>1. PICK k \in Next1(FirstScan) :
          /\ IF UsesAllocated(RAFast, Ops[k].reg) THEN Fails
             ELSE Become(usePhysReg(RAFast, MI, Ops[k].reg)) /\ UNCHANGED unreachable
          /\ op' = k + 1
    BY <1>2 DEF ScanUsePhysReg
  <2>2. phase = "first" /\ ~unreachable /\ UNCHANGED <<fn, phase, PhysRegsUsed, MI, blocks>>
    BY <1>2 DEF ScanUsePhysReg, Scanning
  <2>3. Ops[k].reg \in PhysReg /\ k \in Nat
    BY <2>2, AtInstr, RegAllocAssumption DEF Next1, FirstScan
  <2>4. CASE UsesAllocated(RAFast, Ops[k].reg)
    BY <2>1, <2>2, <2>3, <2>4, FailStep
  <2>5. CASE ~UsesAllocated(RAFast, Ops[k].reg)
    <3>1. Kept(MBB, usePhysReg(RAFast, MI, Ops[k].reg).MBB, MI, {})
      BY <2>2, <2>3, AtInstr, UsePhysKeepsCode
    <3> QED BY <1>1, <2>1, <2>2, <2>3, <2>5, <3>1 DEF Become
  <2> QED BY <2>4, <2>5
<1>3. ASSUME ScanEarlyPhysReg PROVE CodeInv'
  <2>1. PICK k \in Next1(FirstScan) :
          /\ Become(definePhysReg(RAFast, MI, Ops[k].reg, DefinedState(Ops[k])))
          /\ op' = k + 1
    BY <1>3 DEF ScanEarlyPhysReg
  <2>2. /\ phase = "first" /\ ~unreachable
        /\ UNCHANGED <<fn, phase, PhysRegsUsed, MI, blocks, unreachable>>
    BY <1>3 DEF ScanEarlyPhysReg, Scanning
  <2>3. Ops[k].reg \in PhysReg /\ k \in Nat /\ DefinedState(Ops[k]) \in {Free, Reserved}
    BY <2>2, AtInstr, RegAllocAssumption DEF Next1, FirstScan, DefinedState
  <2>4. Kept(MBB, definePhysReg(RAFast, MI, Ops[k].reg, DefinedState(Ops[k])).MBB, MI, {})
    BY <2>2, <2>3, AtInstr, DefinePhysKeepsCode
  <2> QED BY <1>1, <2>1, <2>2, <2>3, <2>4 DEF Become
<1>4. ASSUME CollidingPhysDef PROVE CodeInv'
  <2>1. PICK k \in Next1(CollideScan) :
          /\ LET defined == {Ops[k].reg} \cup Aliases(Ops[k].reg)
                 colliding == {PhysRegState[p] : p \in defined} \cap ThroughRegs
             IN Become([spillVirtRegs(RAFast, MI, colliding) EXCEPT !.UsedInInstr = @ \cup defined])
          /\ op' = k + 1
    BY <1>4 DEF CollidingPhysDef
  <2> DEFINE defined == {Ops[k].reg} \cup Aliases(Ops[k].reg)
             colliding == {PhysRegState[p] : p \in defined} \cap ThroughRegs
             x == spillVirtRegs(RAFast, MI, colliding)
             y == [x EXCEPT !.UsedInInstr = @ \cup defined]
  <2>2. Become(y)
    BY <2>1
  <2>3. /\ phase = "collide" /\ ~unreachable
        /\ UNCHANGED <<fn, phase, PhysRegsUsed, MI, blocks, unreachable>>
    BY <1>4 DEF CollidingPhysDef, Scanning
  <2>4. k \in Nat /\ Ops[k].reg \in PhysReg
    <3>1. k \in DOMAIN Ops /\ Ops[k].reg \notin VirtReg
      BY DEF Next1, CollideScan, IsVirt
    <3>2. Ops[k] \in Operand
      BY <2>3, <3>1, AtInstr
    <3> QED BY <2>3, <3>1, <3>2, AtInstr DEF Operand, Reg
  <2>5. defined \subseteq PhysReg
    BY <2>4, MachineAssumption DEF Aliases
  <2>6. colliding \in SUBSET DOMAIN LiveVirtRegs
    <3> HIDE DEF defined
    <3>1. MapsAgree(PhysRegState, LiveVirtRegs)
      BY DEF IInv, InOrder, RAFast
    <3>2. ThroughRegs \subseteq VirtReg
      BY DEF ThroughRegs, IsVirt
    <3> QED BY <2>5, <3>1, <3>2 DEF MapsAgree
  <2> HIDE DEF colliding
  <2>7. RAFast.LiveVirtRegs = LiveVirtRegs /\ DOMAIN LiveVirtRegs \subseteq VirtReg
    BY DEF RAFast, IInv, InOrder, LiveOK
  <2>8. Kept(MBB, x.MBB, MI, {}) /\ InOrder(x)
    BY <2>3, <2>6, <2>7, AtInstr, SpillKeepsCode, SpillVirtRegs
  <2> HIDE DEF x
  <2>9. y.MBB = x.MBB
    BY <2>8, OtherMembers DEF InOrder
  <2> HIDE DEF y
  <2> QED BY <1>1, <2>1, <2>2, <2>3, <2>4, <2>8, <2>9 DEF Become
<1> QED BY <1>2, <1>3, <1>4

\* A scan is over and the next one begins.
LEMMA NextScan ==
  ASSUME CodeInv, phase \notin {"block", "run", "instr"}, ~unreachable,
         phase' \in {"collide", "through", "uses"}, op' \in Nat,
         UNCHANGED <<fn, MBB, PhysRegsUsed, MI, blocks, unreachable>>,
         InstrOK(phase', Source[MI], MBB[MI], op', UsedInInstr', PhysRegsUsed)
  PROVE  CodeInv'
<1>1. Source' = Source /\ Current' = Current
  BY DEF Source, Current
<1>2. CodeOK(MBB, Source, MI, PhysRegsUsed)'
  BY <1>1 DEF CodeInv
<1>3. InstrOK(phase, Source[MI], MBB[MI], op, UsedInInstr, PhysRegsUsed)'
  BY <1>1
<1> QED BY <1>1, <1>2, <1>3 DEF CodeInv

\* Without through operands nothing is clobbered early that matters.
LEMMA EndOfFirstScanCode == IInv /\ CodeInv /\ EndOfFirstScan => CodeInv'
<1> SUFFICES ASSUME IInv, CodeInv, EndOfFirstScan PROVE CodeInv'
  OBVIOUS
<1>1. /\ phase = "first" /\ ~unreachable /\ op' = 1
      /\ phase' = IF HasThroughOperands THEN "collide" ELSE "uses"
      /\ UNCHANGED <<fn, MBB, PhysRegsUsed, MI, blocks, unreachable, UsedInInstr>>
  BY DEF EndOfFirstScan, raVars
<1> DEFINE g == Source[MI]
           x == MBB[MI]
<1>2. Fresh(g, x) /\ Matches(g, x)
  BY <1>1 DEF CodeInv, InstrOK
<1>3. g = Given /\ x.ops \in Seq(Operand) /\ DOMAIN x.ops = 1 .. Len(x.ops)
  BY <1>1, AtInstr
<1>4. CASE HasThroughOperands
  <2>1. InstrOK("collide", g, x, op', UsedInInstr', PhysRegsUsed)
    BY <1>2 DEF InstrOK
  <2> QED BY <1>1, <1>4, <2>1, NextScan
<1>5. CASE ~HasThroughOperands
  <2>1. ASSUME NEW k \in Defs(x), x.ops[k].early PROVE x.ops[k].reg \in PhysReg \ Allocatable
    <3>1. k \in Defs(Given) /\ Given.ops[k].early /\ Given.ops[k].reg = x.ops[k].reg
      BY <1>2, <1>3, <2>1 DEF Fresh, Alike, SameRegs, SameOperand, Defs
    <3>2. x.ops[k].reg \notin VirtReg \cup Allocatable
      BY <1>5, <3>1 DEF HasThroughOperands, HasEarlyClobbers
    <3>3. x.ops[k] \in Operand
      BY <1>3, <2>1 DEF Defs
    <3> QED BY <3>2, <3>3 DEF Operand, Reg
  <2>2. EarlyIn(x, UsedInInstr')
    BY <1>2, <2>1 DEF EarlyIn, Fresh
  <2>3. UsesDone(x, 1)
    BY <1>3 DEF UsesDone, Uses
  <2>4. InstrOK("uses", g, x, op', UsedInInstr', PhysRegsUsed)
    BY <1>1, <1>2, <2>2, <2>3 DEF InstrOK
  <2> QED BY <1>1, <1>5, <2>4, NextScan
<1> QED BY <1>4, <1>5

LEMMA EndOfCollisionsCode == IInv /\ CodeInv /\ EndOfCollisions => CodeInv'
<1> SUFFICES ASSUME IInv, CodeInv, EndOfCollisions PROVE CodeInv'
  OBVIOUS
<1>1. /\ phase = "collide" /\ op' = 1 /\ phase' = "through"
      /\ UNCHANGED <<fn, MBB, PhysRegsUsed, MI, blocks, unreachable, UsedInInstr>>
  BY DEF EndOfCollisions, raVars
<1>2. ~unreachable
  BY <1>1 DEF CodeInv
<1> DEFINE g == Source[MI]
           x == MBB[MI]
<1>3. Fresh(g, x) /\ Matches(g, x)
  BY <1>1, <1>2 DEF CodeInv, InstrOK
<1>4. DOMAIN x.ops = 1 .. Len(x.ops)
  BY <1>1, AtInstr
<1>5. ThroughDone(x, 1)
  BY <1>3, <1>4 DEF ThroughDone, Fresh, Defs
<1>6. InstrOK("through", g, x, op', UsedInInstr', PhysRegsUsed)
  BY <1>1, <1>3, <1>5 DEF InstrOK
<1> QED BY <1>1, <1>2, <1>6, NextScan

\* What was loaded for a through operand or is clobbered early is used by the instruction.
LEMMA EndOfThroughCode == IInv /\ CodeInv /\ EndOfThrough => CodeInv'
<1> SUFFICES ASSUME IInv, CodeInv, EndOfThrough PROVE CodeInv'
  OBVIOUS
<1> DEFINE g == Source[MI]
           x == MBB[MI]
           K == {k \in DOMAIN Ops : ~IsVirt(Ops[k]) /\ (Ops[k].def => Ops[k].early)}
<1>1. /\ phase = "through" /\ ~unreachable /\ op' = 1 /\ phase' = "uses"
      /\ UsedInInstr' = WithAliases(K) /\ Next1(ThroughScan) = {}
      /\ UNCHANGED <<fn, MBB, PhysRegsUsed, MI, blocks, unreachable>>
  BY DEF EndOfThrough
<1>2. ThroughDone(x, op) /\ Matches(g, x) /\ op \in Nat
  BY <1>1 DEF CodeInv, InstrOK
<1>3. Ops = x.ops /\ x \in AInstr /\ Ops \in Seq(Operand) /\ DOMAIN Ops = 1 .. Len(Ops) /\ Len(Ops) \in Nat
  BY <1>1, AtInstr
<1>4. \A k \in ThroughScan : k < op
  BY <1>1, <1>2, <1>3, NoneLeft DEF ThroughScan
<1>5. \A k \in K : Ops[k].reg \in UsedInInstr'
  BY <1>1 DEF WithAliases
<1>6. \A k \in DOMAIN Ops : Ops[k].reg \in VirtReg \cup PhysReg
  <2>1. \A k \in DOMAIN Ops : Ops[k] \in Operand
    BY <1>3
  <2> QED BY <2>1 DEF Operand, Reg
<1>7. ASSUME NEW k \in Defs(x), x.ops[k].early
      PROVE  x.ops[k].reg \in PhysReg /\ x.ops[k].reg \in UsedInInstr'
  <2>1. k \in DOMAIN Ops /\ Ops[k].def
    BY <1>3 DEF Defs
  <2>2. x.ops[k].reg \in PhysReg
    BY <1>2, <1>3, <1>4, <1>6, <1>7, <2>1 DEF ThroughDone, ThroughScan, IsVirt
  <2>3. k \in K
    BY <1>3, <1>7, <2>1, <2>2, MachineAssumption DEF IsVirt
  <2> QED BY <1>3, <1>5, <2>2, <2>3
<1>8. Loads(x) \subseteq PhysReg
  <2>1. x.moves \in Seq(SUBSET Move)
    BY <1>3 DEF AInstr
  <2>2. \A j \in DOMAIN x.moves : \A m \in x.moves[j] : m.phys \in PhysReg
    BY <2>1 DEF Move
  <2> QED BY <2>2 DEF Loads
<1>9. ASSUME NEW p \in Loads(x) PROVE p \in UsedInInstr'
  <2>1. PICK k \in Uses(x) : p = x.ops[k].reg
    BY <1>2 DEF ThroughDone
  <2>2. k \in K
    BY <1>3, <1>8, <2>1, MachineAssumption DEF IsVirt, Uses
  <2> QED BY <1>3, <1>5, <2>1, <2>2
<1>10. EarlyIn(x, UsedInInstr')
  BY <1>7, <1>9 DEF EarlyIn
<1>11. UsesDone(x, 1)
  BY <1>3 DEF UsesDone, Uses
<1>12. InstrOK("uses", g, x, op', UsedInInstr', PhysRegsUsed)
  BY <1>1, <1>2, <1>10, <1>11 DEF InstrOK
<1> QED BY <1>1, <1>12, NextScan

LEMMA PlacedAndKept ==
  ASSUME NEW c \in Seq(AInstr), NEW d, NEW e, NEW m \in 1 .. Len(c), NEW k, NEW p, NEW L,
         Placed(c, d, m, k, p, L), Kept(d, e, m, {})
  PROVE  Placed(c, e, m, k, p, L)
<1>1. e \in Seq(AInstr) /\ Len(e) = Len(c) /\ Len(d) = Len(c)
  BY DEF Kept, Placed
<1>2. ASSUME NEW i \in 1 .. Len(c)
      PROVE  /\ Alike(c[i], e[i]) /\ (i # m => SameRegs(c[i], e[i]))
             /\ Loads(e[i]) \subseteq Loads(c[i]) \cup (IF i = m THEN L ELSE {})
  <2>1. /\ Alike(c[i], d[i]) /\ (i # m => SameRegs(c[i], d[i]))
        /\ Loads(d[i]) \subseteq Loads(c[i]) \cup (IF i = m THEN L ELSE {})
    BY DEF Placed
  <2>2. Alike(d[i], e[i]) /\ SameRegs(d[i], e[i]) /\ Loads(e[i]) \subseteq Loads(d[i])
    BY <1>1 DEF Kept
  <2>3. Alike(c[i], e[i])
    BY <2>1, <2>2 DEF Alike, SameOperand
  <2>4. i # m => SameRegs(c[i], e[i])
    BY <2>1, <2>2 DEF Alike, SameRegs
  <2> QED BY <2>1, <2>2, <2>3, <2>4
<1>3. \A j \in DOMAIN c[m].ops : e[m].ops[j].reg = IF j = k THEN p ELSE c[m].ops[j].reg
  <2>1. Alike(c[m], d[m]) /\ \A j \in DOMAIN c[m].ops : d[m].ops[j].reg = IF j = k THEN p ELSE c[m].ops[j].reg
    BY DEF Placed
  <2>2. SameRegs(d[m], e[m])
    BY <1>1 DEF Kept
  <2> QED BY <2>1, <2>2 DEF Alike, SameRegs
<1> QED BY <1>1, <1>2, <1>3 DEF Placed

\* Like instructions have like operands.
LEMMA AlikeOperands ==
  ASSUME NEW x, NEW y, Alike(x, y)
  PROVE  /\ DOMAIN y.ops = DOMAIN x.ops /\ Uses(y) = Uses(x) /\ Defs(y) = Defs(x)
         /\ \A k \in DOMAIN x.ops : y.ops[k].def = x.ops[k].def /\ y.ops[k].early = x.ops[k].early
BY DEF Alike, SameOperand, Uses, Defs

\* A virtual operand was given a physical register.
LEMMA StillMatches ==
  ASSUME NEW g, NEW x, NEW y, NEW k, NEW p \in PhysReg, Matches(g, x), Alike(x, y),
         x.ops[k].reg \in VirtReg,
         \A j \in DOMAIN x.ops : y.ops[j].reg = IF j = k THEN p ELSE x.ops[j].reg
  PROVE  Matches(g, y)
<1>1. Alike(g, y)
  BY DEF Matches, Alike, SameOperand
<1>2. DOMAIN g.ops = DOMAIN x.ops
  BY DEF Matches, Alike
<1>3. \A j \in DOMAIN g.ops : \/ y.ops[j].reg = g.ops[j].reg
                              \/ g.ops[j].reg \in VirtReg /\ y.ops[j].reg \in PhysReg
  BY <1>2, MachineAssumption DEF Matches
<1> QED BY <1>1, <1>3 DEF Matches

\* A scan has come by the operands before its next one that it has something to do for.
LEMMA Passed ==
  ASSUME op \in Nat, NEW N \in Nat, NEW I \in SUBSET (1 .. N), NEW k \in Next1(I)
  PROVE  k \in I /\ k \in Nat /\ \A j \in I : j < k => j < op
BY DEF Next1

LEMMA LoadsArePhys ==
  ASSUME NEW x \in AInstr
  PROVE  Loads(x) \subseteq PhysReg
<1>1. x.moves \in Seq(SUBSET Move)
  BY DEF AInstr
<1>2. \A j \in DOMAIN x.moves : \A m \in x.moves[j] : m.phys \in PhysReg
  BY <1>1 DEF Move
<1> QED BY <1>2 DEF Loads

LEMMA OperandRegs ==
  ASSUME NEW ops \in Seq(Operand), NEW k \in DOMAIN ops
  PROVE  ops[k].reg \in VirtReg \cup PhysReg /\ (ops[k].reg \notin VirtReg <=> ops[k].reg \in PhysReg)
<1>1. ops[k] \in Operand
  OBVIOUS
<1> QED BY <1>1, MachineAssumption DEF Operand, Reg

\* A through operand: a register is loaded for a use, or taken for what is clobbered early.
LEMMA ThroughStays ==
  ASSUME IInv, CodeInv, phase = "through", ~unreachable, NEW k \in Next1(ThroughScan), NEW d,
         NEW p \in PhysReg, NEW L, Placed(MBB, d, MI, k, p, L), L = {} \/ (L = {p} /\ ~Ops[k].def),
         NEW more, NEW recorded
  PROVE  InstrOK("through", Source[MI], d[MI], k + 1, more, recorded)
<1> DEFINE x == MBB[MI]
           y == d[MI]
<1>1. ThroughDone(x, op) /\ Matches(Source[MI], x) /\ op \in Nat
  BY DEF CodeInv, InstrOK
<1>2. /\ Ops = x.ops /\ x \in AInstr /\ Ops \in Seq(Operand) /\ DOMAIN Ops = 1 .. Len(Ops) /\ Len(Ops) \in Nat
      /\ MI \in 1 .. Len(MBB)
  BY AtInstr
<1>3. k \in ThroughScan /\ k \in DOMAIN Ops /\ k \in Nat /\ \A j \in ThroughScan : j < k => j < op
  BY <1>1, <1>2, Passed DEF ThroughScan
<1>4. x.ops[k].reg \in VirtReg /\ k \in DOMAIN x.ops
  BY <1>1, <1>2, <1>3 DEF ThroughScan, IsVirt
<1>5. /\ Matches(Source[MI], y) /\ Loads(y) \subseteq Loads(x) \cup L
      /\ Uses(y) = Uses(x) /\ Defs(y) = Defs(x)
      /\ \A j \in DOMAIN x.ops : /\ y.ops[j].reg = IF j = k THEN p ELSE x.ops[j].reg
                                 /\ y.ops[j].def = x.ops[j].def /\ y.ops[j].early = x.ops[j].early
  <2>1. /\ Alike(x, y) /\ Loads(y) \subseteq Loads(x) \cup L
        /\ \A j \in DOMAIN x.ops : y.ops[j].reg = IF j = k THEN p ELSE x.ops[j].reg
    BY <1>2 DEF Placed
  <2> HIDE DEF x, y
  <2>2. Matches(Source[MI], y)
    BY <1>1, <1>4, <2>1, StillMatches
  <2> QED BY <2>1, <2>2, AlikeOperands
<1>6. \A j \in DOMAIN Ops : Ops[j].reg \notin VirtReg <=> Ops[j].reg \in PhysReg
  BY <1>2, OperandRegs
<1> HIDE DEF x, y
<1>7. ASSUME NEW q \in Loads(y) PROVE q \in {y.ops[j].reg : j \in Uses(y)}
  <2>1. CASE q \in Loads(x)
    <3>1. PICK j \in Uses(x) : q = x.ops[j].reg
      BY <1>1, <2>1 DEF ThroughDone
    <3>2. j \in DOMAIN x.ops /\ j # k
      BY <1>2, <1>4, <2>1, <3>1, LoadsArePhys, MachineAssumption DEF Uses
    <3> QED BY <1>5, <3>1, <3>2
  <2>2. CASE q \in L
    <3>1. k \in Uses(y) /\ y.ops[k].reg = p /\ q = p
      BY <1>2, <1>3, <1>5, <2>2 DEF Uses
    <3> QED BY <3>1
  <2> QED BY <1>5, <2>1, <2>2
<1>8. ASSUME NEW j \in Defs(y), y.ops[j].early, j < k + 1 PROVE y.ops[j].reg \in PhysReg
  <2>1. j \in DOMAIN Ops /\ j \in Defs(x) /\ Ops[j].def /\ x.ops[j].early
    BY <1>2, <1>5, <1>8 DEF Defs
  <2>2. CASE j = k
    BY <1>2, <1>5, <2>1, <2>2
  <2>3. CASE j # k
    <3>1. j < k
      BY <1>2, <1>3, <1>8, <2>1, <2>3
    <3>2. x.ops[j].reg \in PhysReg
      BY <1>1, <1>2, <1>3, <1>6, <2>1, <3>1 DEF ThroughDone, ThroughScan, IsVirt
    <3> QED BY <1>2, <1>5, <2>1, <2>3, <3>2
  <2> QED BY <2>2, <2>3
<1>9. ThroughDone(y, k + 1)
  BY <1>7, <1>8 DEF ThroughDone
<1> QED BY <1>5, <1>9 DEF InstrOK, y

LEMMA ThroughCode == IInv /\ CodeInv /\ (ThroughUse \/ EarlyClobber) => CodeInv'
<1> SUFFICES ASSUME IInv, CodeInv PROVE ThroughUse \/ EarlyClobber => CodeInv'
  OBVIOUS
<1>1. ASSUME phase = "through", NEW k \in Next1(ThroughScan)
      PROVE  /\ Ops[k].reg \in VirtReg /\ k \in DOMAIN MBB[MI].ops /\ k + 1 \in Nat /\ MI \in 1 .. Len(MBB)
             /\ MBB \in Seq(AInstr) /\ InOrder(RAFast) /\ RAFast.MBB = MBB
  BY <1>1, AtInstr DEF Next1, ThroughScan, IsVirt
<1>2. ASSUME ThroughUse PROVE CodeInv'
  <2>1. PICK k \in Next1(ThroughScan) :
          /\ ~Ops[k].def /\ op' = k + 1
          /\ IF OutOfRegisters(RAFast, Ops[k].reg, NoReg) THEN Fails
             ELSE Become(reloadVirtReg(RAFast, MI, k, Ops[k].reg, NoReg)) /\ UNCHANGED unreachable
    BY <1>2 DEF ThroughUse
  <2>2. phase = "through" /\ ~unreachable /\ UNCHANGED <<fn, phase, PhysRegsUsed, MI, blocks>>
    BY <1>2 DEF ThroughUse, Scanning
  <2>3. CASE OutOfRegisters(RAFast, Ops[k].reg, NoReg)
    BY <1>1, <2>1, <2>2, <2>3, FailStep
  <2>4. CASE ~OutOfRegisters(RAFast, Ops[k].reg, NoReg)
    <3> DEFINE next == reloadVirtReg(RAFast, MI, k, Ops[k].reg, NoReg)
    <3>1. PICK p \in PhysReg : Placed(MBB, next.MBB, MI, k, p, {p})
      <4>1. \E p \in PhysReg : /\ Placed(RAFast.MBB, next.MBB, MI, k, p, {p})
                               /\ RAFast.UsedInInstr \cup {p} \subseteq next.UsedInInstr
        BY <1>1, <2>2, <2>4, ReloadVirtPlaces
      <4> HIDE DEF next
      <4> QED BY <1>1, <2>2, <4>1
    <3>2. MBB' = next.MBB /\ UNCHANGED unreachable
      BY <2>1, <2>4 DEF Become
    <3> HIDE DEF next
    <3>3. InstrOK("through", Source[MI], MBB'[MI], k + 1, UsedInInstr', PhysRegsUsed)
      BY <2>1, <2>2, <3>1, <3>2, ThroughStays
    <3> QED BY <1>1, <2>1, <2>2, <3>1, <3>2, <3>3, ScanStep
  <2> QED BY <2>3, <2>4
<1>3. ASSUME EarlyClobber PROVE CodeInv'
  <2>1. PICK k \in Next1(ThroughScan) :
          /\ op' = k + 1
          /\ IF OutOfRegisters(RAFast, Ops[k].reg, HintFor(RAFast, Ops[k].reg, NoReg)) THEN Fails
             ELSE Become(defineVirtReg(RAFast, MI, k, Ops[k].reg, NoReg)) /\ UNCHANGED unreachable
    BY <1>3 DEF EarlyClobber
  <2>2. phase = "through" /\ ~unreachable /\ UNCHANGED <<fn, phase, PhysRegsUsed, MI, blocks>>
    BY <1>3 DEF EarlyClobber, Scanning
  <2>3. CASE OutOfRegisters(RAFast, Ops[k].reg, HintFor(RAFast, Ops[k].reg, NoReg))
    BY <1>1, <2>1, <2>2, <2>3, FailStep
  <2>4. CASE ~OutOfRegisters(RAFast, Ops[k].reg, HintFor(RAFast, Ops[k].reg, NoReg))
    <3> DEFINE next == defineVirtReg(RAFast, MI, k, Ops[k].reg, NoReg)
    <3>1. PICK p \in PhysReg : Placed(MBB, next.MBB, MI, k, p, {})
      BY <1>1, <2>2, <2>4, DefineVirtPlaces
    <3>2. MBB' = next.MBB /\ UNCHANGED unreachable
      BY <2>1, <2>4 DEF Become
    <3> HIDE DEF next
    <3>3. InstrOK("through", Source[MI], MBB'[MI], k + 1, UsedInInstr', PhysRegsUsed)
      BY <2>2, <3>1, <3>2, ThroughStays
    <3> QED BY <1>1, <2>1, <2>2, <3>1, <3>2, <3>3, ScanStep
  <2> QED BY <2>3, <2>4
<1> QED BY <1>2, <1>3

\* What is loaded for a use is loaded into a register the instruction uses.
LEMMA UseStays ==
  ASSUME IInv, CodeInv, phase = "uses", ~unreachable, NEW k \in Next1(UseScan), NEW d,
         NEW p \in PhysReg, Placed(MBB, d, MI, k, p, {p}),
         NEW more, UsedInInstr \cup {p} \subseteq more, NEW recorded
  PROVE  InstrOK("uses", Source[MI], d[MI], k + 1, more, recorded)
<1> DEFINE x == MBB[MI]
           y == d[MI]
<1>1. EarlyIn(x, UsedInInstr) /\ UsesDone(x, op) /\ Matches(Source[MI], x) /\ op \in Nat
  BY DEF CodeInv, InstrOK
<1>2. /\ Ops = x.ops /\ Ops \in Seq(Operand) /\ DOMAIN Ops = 1 .. Len(Ops) /\ Len(Ops) \in Nat
      /\ MI \in 1 .. Len(MBB)
  BY AtInstr
<1>3. k \in UseScan /\ k \in DOMAIN Ops /\ k \in Nat /\ \A j \in UseScan : j < k => j < op
  BY <1>1, <1>2, Passed DEF UseScan
<1>4. x.ops[k].reg \in VirtReg
  BY <1>2, <1>3 DEF UseScan, IsVirt
<1>5. /\ Alike(x, y) /\ Loads(y) \subseteq Loads(x) \cup {p}
      /\ \A j \in DOMAIN x.ops : y.ops[j].reg = IF j = k THEN p ELSE x.ops[j].reg
  BY <1>2 DEF Placed
<1>6. \A j \in DOMAIN Ops : Ops[j].reg \notin VirtReg <=> Ops[j].reg \in PhysReg
  BY <1>2, OperandRegs
<1> HIDE DEF x, y
<1>7. Matches(Source[MI], y)
  BY <1>1, <1>4, <1>5, StillMatches
<1>8. /\ Uses(y) = Uses(x) /\ Defs(y) = Defs(x)
      /\ \A j \in DOMAIN x.ops : y.ops[j].early = x.ops[j].early
  BY <1>5, AlikeOperands
<1>9. EarlyIn(y, more)
  <2>1. \A j \in Defs(x) : j \in DOMAIN x.ops /\ j # k
    BY <1>2, <1>3 DEF Defs, UseScan
  <2> QED BY <1>1, <1>5, <1>8, <2>1 DEF EarlyIn
<1>10. ASSUME NEW j \in Uses(y), j < k + 1 PROVE y.ops[j].reg \in PhysReg
  <2>1. j \in DOMAIN Ops /\ j \in Uses(x) /\ ~Ops[j].def
    BY <1>2, <1>8 DEF Uses
  <2>2. CASE j = k
    BY <1>2, <1>5, <2>1, <2>2
  <2>3. CASE j # k
    <3>1. j < k
      BY <1>2, <1>3, <1>10, <2>1, <2>3
    <3>2. x.ops[j].reg \in PhysReg
      BY <1>1, <1>2, <1>3, <1>6, <2>1, <3>1 DEF UsesDone, UseScan, IsVirt
    <3> QED BY <1>2, <1>5, <2>1, <2>3, <3>2
  <2> QED BY <2>2, <2>3
<1>11. UsesDone(y, k + 1)
  BY <1>10 DEF UsesDone
<1> QED BY <1>7, <1>9, <1>11 DEF InstrOK, y

LEMMA VirtUseCode == IInv /\ CodeInv /\ VirtUse => CodeInv'
<1> SUFFICES ASSUME IInv, CodeInv, VirtUse PROVE CodeInv'
  OBVIOUS
<1>1. PICK k \in Next1(UseScan) :
        /\ op' = k + 1
        /\ LET next == reloadVirtReg(RAFast, MI, k, Ops[k].reg, CopyDst)
           IN IF OutOfRegisters(RAFast, Ops[k].reg, CopyDst) THEN Fails
              ELSE /\ Become(IF next.MBB[MI].ops[k].kill THEN killVirtRegs(next, {Ops[k].reg})
                             ELSE next)
                   /\ UNCHANGED unreachable
  BY DEF VirtUse
<1>2. phase = "uses" /\ ~unreachable /\ UNCHANGED <<fn, phase, PhysRegsUsed, MI, blocks>>
  BY DEF VirtUse, Scanning
<1> DEFINE v == Ops[k].reg
           next == reloadVirtReg(RAFast, MI, k, v, CopyDst)
           x == IF next.MBB[MI].ops[k].kill THEN killVirtRegs(next, {v}) ELSE next
<1>3. /\ v \in VirtReg /\ k \in DOMAIN MBB[MI].ops /\ k + 1 \in Nat /\ MI \in 1 .. Len(MBB)
      /\ MBB \in Seq(AInstr) /\ InOrder(RAFast) /\ RAFast.MBB = MBB /\ RAFast.UsedInInstr = UsedInInstr
  BY <1>2, AtInstr DEF Next1, UseScan, IsVirt
<1>4. CASE OutOfRegisters(RAFast, v, CopyDst)
  BY <1>1, <1>2, <1>3, <1>4, FailStep
<1>5. CASE ~OutOfRegisters(RAFast, v, CopyDst)
  <2>1. /\ v \in DOMAIN next.LiveVirtRegs /\ InOrder(next)
        /\ \E p \in PhysReg : /\ Placed(RAFast.MBB, next.MBB, MI, k, p, {p})
                              /\ RAFast.UsedInInstr \cup {p} \subseteq next.UsedInInstr
    BY <1>3, <1>5, ReloadVirt, ReloadVirtPlaces
  <2>2. MBB' = x.MBB /\ UsedInInstr' = x.UsedInInstr /\ UNCHANGED unreachable
    BY <1>1, <1>5 DEF Become
  <2> HIDE DEF next
  <2>3. PICK p \in PhysReg : /\ Placed(MBB, next.MBB, MI, k, p, {p})
                             /\ UsedInInstr \cup {p} \subseteq next.UsedInInstr
    BY <1>3, <2>1
  <2>4. Placed(MBB, x.MBB, MI, k, p, {p}) /\ x.UsedInInstr = next.UsedInInstr
    <3>1. next.MBB \in Seq(AInstr) /\ Fields(next) /\ next.LiveVirtRegs[v].PhysReg \in PhysReg
      BY <2>1, <2>3 DEF Placed, InOrder, LiveOK
    <3>2. /\ Kept(next.MBB, killVirtRegs(next, {v}).MBB, MI, {})
          /\ killVirtRegs(next, {v}).UsedInInstr = next.UsedInInstr
      BY <3>1, KillKeepsCode
    <3>3. Placed(MBB, killVirtRegs(next, {v}).MBB, MI, k, p, {p})
      BY <1>3, <2>3, <3>2, PlacedAndKept
    <3> QED BY <2>3, <3>2, <3>3
  <2> HIDE DEF x
  <2>5. InstrOK("uses", Source[MI], MBB'[MI], k + 1, UsedInInstr', PhysRegsUsed)
    BY <1>2, <2>2, <2>3, <2>4, UseStays
  <2> QED BY <1>1, <1>2, <1>3, <2>2, <2>4, <2>5, ScanStep
<1> QED BY <1>4, <1>5

LEMMA DoneStays == \A x, r, s : Done(x, r) /\ r \subseteq s => Done(x, s)
BY DEF Done

\* When the uses have registers, what was loaded or is clobbered early is recorded.
LEMMA EndOfUsesCode == IInv /\ CodeInv /\ EndOfUses => CodeInv'
<1> SUFFICES ASSUME IInv, CodeInv, EndOfUses PROVE CodeInv'
  OBVIOUS
<1>1. PICK used : LET marked == [RAFast EXCEPT !.UsedInInstr = used]
                  IN Become(IF Given.kind = "call" THEN spillAll(marked, MI) ELSE marked)
  BY DEF EndOfUses
<1>2. /\ phase = "uses" /\ phase' = "defs" /\ ~unreachable /\ op' = 1 /\ Next1(UseScan) = {}
      /\ PhysRegsUsed' = PhysRegsUsed \cup UsedInInstr
      /\ UNCHANGED <<fn, unreachable, MI, blocks>>
  BY DEF EndOfUses
<1>3. /\ MBB \in Seq(AInstr) /\ MI \in 1 .. Len(MBB) /\ MBB[MI] \in AInstr
      /\ Ops = MBB[MI].ops /\ Ops \in Seq(Operand) /\ Len(Ops) \in Nat /\ DOMAIN Ops = 1 .. Len(Ops)
      /\ InOrder(RAFast) /\ RAFast.MBB = MBB
  BY <1>2, AtInstr
<1> DEFINE marked == [RAFast EXCEPT !.UsedInInstr = used]
           z == IF Given.kind = "call" THEN spillAll(marked, MI) ELSE marked
           x == MBB[MI]
           y == MBB'[MI]
<1>4. Become(z)
  BY <1>1
<1>5. InOrder(marked) /\ marked.MBB = MBB
  BY <1>3, SetUsed, OtherMembers DEF InOrder
<1> HIDE DEF marked
<1>6. Kept(MBB, MBB', MI, {})
  <2>1. Kept(MBB, spillAll(marked, MI).MBB, MI, {})
    BY <1>3, <1>5, SpillKeepsCode DEF spillAll, Live
  <2>2. Kept(MBB, marked.MBB, MI, {})
    BY <1>3, <1>5 DEF Kept, Alike, SameRegs, SameOperand
  <2>3. MBB' = z.MBB
    BY <1>4 DEF Become
  <2> QED BY <2>1, <2>2, <2>3
<1> HIDE DEF z
<1>7. Source' = Source /\ Current' = Current
  BY <1>2 DEF Source, Current
<1>8. CodeOK(MBB, Source, MI, PhysRegsUsed)'
  <2>1. CodeOK(MBB', Source, MI, PhysRegsUsed)
    BY <1>2, <1>6, CodeStaysOK DEF CodeInv
  <2>2. CodeOK(MBB', Source, MI, PhysRegsUsed')
    BY <1>2, <2>1, MoreRecorded
  <2> QED BY <1>2, <1>7, <2>2
<1>9. EarlyIn(x, UsedInInstr) /\ UsesDone(x, op) /\ Matches(Source[MI], x) /\ op \in Nat
  BY <1>2 DEF CodeInv, InstrOK
<1>10. EarlyIn(x, PhysRegsUsed')
  BY <1>2, <1>9 DEF EarlyIn
<1>11. UsesDone(x, Len(x.ops) + 1)
  <2>1. \A k \in UseScan : k < op
    BY <1>2, <1>3, <1>9, NoneLeft DEF UseScan
  <2>2. \A k \in DOMAIN Ops : Ops[k].reg \notin VirtReg <=> Ops[k].reg \in PhysReg
    BY <1>3, OperandRegs
  <2>3. ASSUME NEW k \in Uses(x) PROVE x.ops[k].reg \in PhysReg
    <3>1. k \in DOMAIN Ops /\ ~Ops[k].def
      BY <1>3 DEF Uses
    <3> QED BY <1>3, <1>9, <2>1, <2>2, <3>1 DEF UseScan, UsesDone, IsVirt
  <2> QED BY <2>3 DEF UsesDone
<1>12. DefsDone(Source[MI], x, 1, {})
  BY <1>3 DEF DefsDone, Defs
<1>13. InstrOK("defs", Source[MI], x, 1, {}, PhysRegsUsed')
  BY <1>9, <1>10, <1>11, <1>12 DEF InstrOK
<1>14. InstrOK("defs", Source[MI], y, 1, UsedInInstr', PhysRegsUsed')
  <2>1. Alike(x, y) /\ SameRegs(x, y) /\ Loads(y) \subseteq Loads(x)
    BY <1>3, <1>6 DEF Kept
  <2>2. x.ops \in Seq(Operand) /\ y.ops \in Seq(Operand)
    <3>1. MBB' \in Seq(AInstr) /\ MI \in 1 .. Len(MBB')
      BY <1>3, <1>6 DEF Kept
    <3>2. y \in AInstr
      BY <3>1
    <3> QED BY <1>3, <3>2 DEF AInstr
  <2> HIDE DEF x, y
  <2> QED BY <1>13, <2>1, <2>2, InstrKept
<1>15. InstrOK(phase, Source[MI], MBB[MI], op, UsedInInstr, PhysRegsUsed)'
  BY <1>2, <1>7, <1>14
<1>16. \A b \in DOMAIN blocks' : \A i \in DOMAIN blocks'[b] : Done(blocks'[b][i], PhysRegsUsed')
  BY <1>2, DoneStays DEF CodeInv
<1>17. Len(MBB') = Len(MBB)
  BY <1>6 DEF Kept
<1> QED BY <1>2, <1>7, <1>8, <1>15, <1>16, <1>17 DEF CodeInv

\* What the scan for definitions has come by is defined: the others it does nothing for
\* are not allocatable, or behind the virtual operands of a call.
LEMMA DefsPassed ==
  ASSUME IInv, CodeInv, phase = "defs", ~unreachable, NEW n, \A j \in DefScan : j < n => j < op
  PROVE  DefsDone(Source[MI], MBB[MI], n, UsedInInstr)
<1> DEFINE x == MBB[MI]
           g == Source[MI]
<1>1. DefsDone(g, x, op, UsedInInstr) /\ Matches(g, x)
  BY DEF CodeInv, InstrOK
<1>2. Ops = x.ops /\ Ops \in Seq(Operand) /\ DOMAIN Ops = 1 .. Len(Ops) /\ Len(Ops) \in Nat /\ g = Given
  BY AtInstr
<1>3. \A j \in DOMAIN Ops : Ops[j].reg \notin VirtReg <=> Ops[j].reg \in PhysReg
  BY <1>2, OperandRegs
<1>4. VirtEnd(g) = VirtOpEnd
  BY <1>2 DEF VirtEnd, VirtOpEnd
<1> HIDE DEF x, g
<1>5. ASSUME NEW j \in DOMAIN Ops, Ops[j].reg \in VirtReg PROVE j \in VirtOpEnd
  <2>1. j \in DOMAIN g.ops /\ g.ops[j].reg \in VirtReg
    BY <1>1, <1>2, <1>5, MachineAssumption DEF Matches, Alike
  <2>2. j \in VirtEnd(g)
    BY <1>2, <2>1 DEF VirtEnd, IsVirt
  <2> QED BY <1>4, <2>2
<1>6. ASSUME NEW j \in Defs(x), ~x.ops[j].early, j < n
      PROVE  /\ x.ops[j].reg \in PhysReg
             /\ x.ops[j].reg \in Allocatable /\ (g.kind = "call" => j \in VirtEnd(g))
                  => x.ops[j].reg \in UsedInInstr
  <2>1. j \in DOMAIN Ops /\ Ops[j].def /\ ~Ops[j].early
    BY <1>2, <1>6 DEF Defs
  <2>2. CASE j \in DefScan
    BY <1>1, <1>6, <2>2 DEF DefsDone
  <2>3. CASE j \notin DefScan
    <3>1. ~(Ops[j].reg \in VirtReg \cup Allocatable /\ (Given.kind = "call" => j \in VirtOpEnd))
      BY <2>1, <2>3 DEF DefScan
    <3>2. Ops[j].reg \notin VirtReg
      BY <1>5, <2>1, <3>1
    <3> QED BY <1>2, <1>3, <1>4, <2>1, <3>1, <3>2
  <2> QED BY <2>2, <2>3
<1> QED BY <1>6 DEF DefsDone, x, g

LEMMA DefinePhysCode == IInv /\ CodeInv /\ DefinePhysReg => CodeInv'
<1> SUFFICES ASSUME IInv, CodeInv, DefinePhysReg PROVE CodeInv'
  OBVIOUS
<1>1. PICK k \in Next1(DefScan) :
        /\ ~IsVirt(Ops[k]) /\ op' = k + 1
        /\ Become(definePhysReg(RAFast, MI, Ops[k].reg, DefinedState(Ops[k])))
  BY DEF DefinePhysReg
<1>2. phase = "defs" /\ ~unreachable /\ UNCHANGED <<fn, phase, PhysRegsUsed, MI, blocks, unreachable>>
  BY DEF DefinePhysReg, Scanning
<1> DEFINE x == MBB[MI]
           y == MBB'[MI]
           g == Source[MI]
           p == Ops[k].reg
           z == definePhysReg(RAFast, MI, p, DefinedState(Ops[k]))
<1>3. /\ MBB \in Seq(AInstr) /\ MI \in 1 .. Len(MBB)
      /\ Ops = x.ops /\ Ops \in Seq(Operand) /\ Len(Ops) \in Nat /\ DOMAIN Ops = 1 .. Len(Ops)
      /\ InOrder(RAFast) /\ RAFast.MBB = MBB /\ RAFast.UsedInInstr = UsedInInstr
  BY <1>2, AtInstr
<1>4. op \in Nat /\ InstrOK("defs", g, x, op, UsedInInstr, PhysRegsUsed)
  BY <1>2 DEF CodeInv
<1>5. k \in DOMAIN Ops /\ k \in Nat /\ \A j \in DefScan : j < k => j < op
  BY <1>3, <1>4, Passed DEF DefScan
<1>6. p \in PhysReg /\ DefinedState(Ops[k]) \in {Free, Reserved}
  BY <1>1, <1>3, <1>5, OperandRegs DEF IsVirt, DefinedState
<1>7. Kept(MBB, z.MBB, MI, {}) /\ UsedInInstr \cup {p} \subseteq z.UsedInInstr
  BY <1>3, <1>6, DefinePhysKeepsCode
<1>8. MBB' = z.MBB /\ UsedInInstr' = z.UsedInInstr
  BY <1>1 DEF Become
<1> HIDE DEF z
<1>9. DefsDone(g, x, k, UsedInInstr)
  BY <1>2, <1>5, DefsPassed
<1>10. DefsDone(g, x, k + 1, UsedInInstr')
  <2> SUFFICES ASSUME NEW j \in Defs(x), ~x.ops[j].early, j < k + 1
               PROVE  /\ x.ops[j].reg \in PhysReg
                      /\ x.ops[j].reg \in Allocatable /\ (g.kind = "call" => j \in VirtEnd(g))
                           => x.ops[j].reg \in UsedInInstr'
    BY DEF DefsDone
  <2>1. CASE j = k
    BY <1>3, <1>6, <1>7, <1>8, <2>1
  <2>2. CASE j # k
    <3>1. j < k
      BY <1>3, <1>5, <2>2 DEF Defs
    <3> QED BY <1>7, <1>8, <1>9, <3>1 DEF DefsDone
  <2> QED BY <2>1, <2>2
<1>11. InstrOK("defs", g, x, k + 1, UsedInInstr', PhysRegsUsed)
  BY <1>4, <1>10 DEF InstrOK
<1>12. InstrOK("defs", g, y, k + 1, UsedInInstr', PhysRegsUsed)
  <2>1. Alike(x, y) /\ SameRegs(x, y) /\ Loads(y) \subseteq Loads(x)
    BY <1>3, <1>7, <1>8 DEF Kept
  <2>2. x.ops \in Seq(Operand) /\ y.ops \in Seq(Operand)
    <3>1. MBB' \in Seq(AInstr) /\ MI \in 1 .. Len(MBB')
      BY <1>3, <1>7, <1>8 DEF Kept
    <3>2. y \in AInstr
      BY <3>1
    <3> QED BY <1>3, <3>2 DEF AInstr
  <2> HIDE DEF x, y, g
  <2> QED BY <1>11, <2>1, <2>2, InstrKept
<1> QED BY <1>1, <1>2, <1>5, <1>7, <1>8, <1>12, ScanStep

LEMMA DefineVirtCode == IInv /\ CodeInv /\ DefineVirtReg => CodeInv'
<1> SUFFICES ASSUME IInv, CodeInv, DefineVirtReg PROVE CodeInv'
  OBVIOUS
<1>1. PICK k \in Next1(DefScan) :
        /\ IsVirt(Ops[k]) /\ op' = k + 1
        /\ IF OutOfRegisters(RAFast, Ops[k].reg, HintFor(RAFast, Ops[k].reg, CopySrc)) THEN Fails
           ELSE Become(defineVirtReg(RAFast, MI, k, Ops[k].reg, CopySrc)) /\ UNCHANGED unreachable
  BY DEF DefineVirtReg
<1>2. phase = "defs" /\ ~unreachable /\ UNCHANGED <<fn, phase, PhysRegsUsed, MI, blocks>>
  BY DEF DefineVirtReg, Scanning
<1> DEFINE x == MBB[MI]
           y == MBB'[MI]
           g == Source[MI]
           v == Ops[k].reg
           next == defineVirtReg(RAFast, MI, k, v, CopySrc)
<1>3. /\ MBB \in Seq(AInstr) /\ MI \in 1 .. Len(MBB)
      /\ Ops = x.ops /\ Ops \in Seq(Operand) /\ Len(Ops) \in Nat /\ DOMAIN Ops = 1 .. Len(Ops)
      /\ InOrder(RAFast) /\ RAFast.MBB = MBB /\ RAFast.UsedInInstr = UsedInInstr
  BY <1>2, AtInstr
<1>4. op \in Nat /\ InstrOK("defs", g, x, op, UsedInInstr, PhysRegsUsed)
  BY <1>2 DEF CodeInv
<1>5. k \in DOMAIN Ops /\ Ops[k].def /\ k \in Nat /\ \A j \in DefScan : j < k => j < op
  <2>1. DefScan \in SUBSET (1 .. Len(Ops))
    BY <1>3 DEF DefScan
  <2>2. k \in DefScan /\ k \in Nat /\ \A j \in DefScan : j < k => j < op
    BY <1>3, <1>4, <2>1, Passed
  <2> QED BY <2>2 DEF DefScan
<1>6. v \in VirtReg
  BY <1>1 DEF IsVirt
<1>7. CASE OutOfRegisters(RAFast, v, HintFor(RAFast, v, CopySrc))
  BY <1>1, <1>2, <1>5, <1>7, FailStep
<1>8. CASE ~OutOfRegisters(RAFast, v, HintFor(RAFast, v, CopySrc))
  <2>1. \E p \in PhysReg : /\ Placed(RAFast.MBB, next.MBB, MI, k, p, {})
                           /\ RAFast.UsedInInstr \cup {p} \subseteq next.UsedInInstr
    BY <1>3, <1>5, <1>6, <1>8, DefineVirtPlaces
  <2>2. MBB' = next.MBB /\ UsedInInstr' = next.UsedInInstr /\ UNCHANGED unreachable
    BY <1>1, <1>8 DEF Become
  <2> HIDE DEF next
  <2>3. PICK p \in PhysReg : Placed(MBB, MBB', MI, k, p, {}) /\ UsedInInstr \cup {p} \subseteq UsedInInstr'
    BY <1>3, <2>1, <2>2
  <2>4. DefsDone(g, x, k, UsedInInstr)
    BY <1>2, <1>5, DefsPassed
  <2>5. EarlyIn(x, PhysRegsUsed) /\ UsesDone(x, Len(x.ops) + 1) /\ Matches(g, x)
    BY <1>4 DEF InstrOK
  <2>6. /\ Alike(x, y) /\ Loads(y) \subseteq Loads(x)
        /\ \A j \in DOMAIN x.ops : y.ops[j].reg = IF j = k THEN p ELSE x.ops[j].reg
    BY <1>3, <2>3 DEF Placed
  <2>7. x.ops[k].reg \in VirtReg /\ k \in DOMAIN x.ops /\ x.ops[k].def /\ y.ops \in Seq(Operand)
    <3>1. MBB' \in Seq(AInstr) /\ MI \in 1 .. Len(MBB')
      BY <1>3, <2>3 DEF Placed
    <3>2. y \in AInstr
      BY <3>1
    <3> QED BY <1>3, <1>5, <1>6, <3>2 DEF AInstr
  <2>8. x.ops \in Seq(Operand)
    BY <1>3
  <2> HIDE DEF x, y, g
  <2>9. Matches(g, y)
    BY <2>5, <2>6, <2>7, StillMatches
  <2>10. /\ DOMAIN y.ops = DOMAIN x.ops /\ Uses(y) = Uses(x) /\ Defs(y) = Defs(x)
         /\ \A j \in DOMAIN x.ops : y.ops[j].early = x.ops[j].early
    BY <2>6, AlikeOperands
  <2>11. Uses(x) \subseteq DOMAIN x.ops \ {k} /\ Defs(x) \subseteq DOMAIN x.ops
    BY <2>7 DEF Uses, Defs
  <2>12. UsesDone(y, Len(y.ops) + 1)
    <3>1. Len(y.ops) = Len(x.ops)
      BY <2>7, <2>8, <2>10
    <3> QED BY <2>5, <2>6, <2>10, <2>11, <3>1 DEF UsesDone
  <2>13. EarlyIn(y, PhysRegsUsed)
    <3>1. ~x.ops[k].early
      BY <1>1, <1>3 DEF Next1, DefScan
    <3> QED BY <2>5, <2>6, <2>10, <2>11, <3>1 DEF EarlyIn
  <2>14. DefsDone(g, y, k + 1, UsedInInstr')
    <3> SUFFICES ASSUME NEW j \in Defs(y), ~y.ops[j].early, j < k + 1
                 PROVE  /\ y.ops[j].reg \in PhysReg
                        /\ y.ops[j].reg \in Allocatable /\ (g.kind = "call" => j \in VirtEnd(g))
                             => y.ops[j].reg \in UsedInInstr'
      BY DEF DefsDone
    <3>1. j \in DOMAIN x.ops /\ j \in Defs(x) /\ ~x.ops[j].early
      BY <2>10, <2>11
    <3>2. CASE j = k
      BY <2>3, <2>6, <3>1, <3>2
    <3>3. CASE j # k
      <4>1. j < k
        BY <1>5, <2>8, <3>1, <3>3
      <4> QED BY <2>3, <2>4, <2>6, <3>1, <3>3, <4>1 DEF DefsDone
    <3> QED BY <3>2, <3>3
  <2>15. InstrOK("defs", g, y, k + 1, UsedInInstr', PhysRegsUsed)
    BY <2>9, <2>12, <2>13, <2>14 DEF InstrOK
  <2> QED BY <1>1, <1>2, <1>5, <2>2, <2>3, <2>15, ScanStep DEF g, y
<1> QED BY <1>7, <1>8

\* An instruction is marked as coalesced or not.
LEMMA GoneSet ==
  ASSUME NEW c \in Seq(AInstr), NEW m \in 1 .. Len(c), NEW gone \in BOOLEAN
  PROVE  Kept(c, [c EXCEPT ![m].gone = gone], m, {})
<1> DEFINE new == [c[m] EXCEPT !.gone = gone]
           d == [c EXCEPT ![m] = new]
<1>1. c[m] \in AInstr
  OBVIOUS
<1>2. new \in AInstr /\ new.kind = c[m].kind /\ new.ops = c[m].ops /\ new.moves = c[m].moves
  BY <1>1 DEF AInstr
<1> HIDE DEF new
<1>3. d \in Seq(AInstr) /\ Len(d) = Len(c) /\ \A i \in 1 .. Len(c) : d[i] = IF i = m THEN new ELSE c[i]
  BY <1>2
<1> HIDE DEF d
<1>4. Kept(c, d, m, {})
  BY <1>2, <1>3 DEF Kept, Alike, SameRegs, SameOperand, Loads
<1> QED BY <1>4 DEF d, new

\* An instruction whose scans are over is done: what a call defines behind its virtual
\* operands it defines implicitly, and that is recorded for its kind.
LEMMA InstrIsDone ==
  ASSUME IInv, CodeInv, phase = "defs", ~unreachable, Next1(DefScan) = {}, NEW recorded,
         PhysRegsUsed \cup UsedInInstr \subseteq recorded,
         Given.kind = "call" =>
           {Given.ops[k].reg : k \in {j \in Defs(Given) : Given.ops[j].imp}} \subseteq recorded
  PROVE  Done(MBB[MI], recorded)
<1> DEFINE x == MBB[MI]
           g == Source[MI]
<1>1. EarlyIn(x, PhysRegsUsed) /\ UsesDone(x, Len(x.ops) + 1) /\ Matches(g, x) /\ op \in Nat
  BY DEF CodeInv, InstrOK
<1>2. Ops = x.ops /\ Ops \in Seq(Operand) /\ DOMAIN Ops = 1 .. Len(Ops) /\ Len(Ops) \in Nat /\ g = Given
  BY AtInstr
<1>3. DefsDone(g, x, Len(x.ops) + 1, UsedInInstr)
  <2>1. \A j \in DefScan : j < op
    BY <1>1, <1>2, NoneLeft DEF DefScan
  <2> QED BY <2>1, DefsPassed
<1>4. Given.kind = "call" => \A k \in Defs(Given) : Given.ops[k].imp \/ k \in VirtEnd(Given)
  <2>1. Current \in DOMAIN fn /\ MI \in DOMAIN fn[Current].code /\ CallsDefineImplicitly(fn)
    <3>1. /\ Current \in DOMAIN fn /\ MI \in 1 .. Len(Source) /\ MI < Len(Source) /\ fn \in Seq(Block)
          /\ CallsDefineImplicitly(fn)
      BY RegAllocAssumption DEF CodeInv, CodeOK
    <3>2. fn[Current] \in Block
      BY <3>1
    <3>3. fn[Current].code \in Seq(Instr)
      BY <3>2 DEF Block
    <3>4. Len(Source) = Len(fn[Current].code) + 1
      BY <3>3 DEF Source
    <3> QED BY <3>1, <3>3, <3>4
  <2> QED BY <2>1 DEF CallsDefineImplicitly, Given, VirtEnd, IsVirt, Defs
<1> HIDE DEF x, g
<1>5. \A k \in DOMAIN x.ops : k \in Uses(x) \/ k \in Defs(x)
  BY DEF Uses, Defs
<1>6. ASSUME NEW k \in Uses(x) PROVE x.ops[k].reg \in PhysReg
  <2>1. k \in 1 .. Len(x.ops)
    BY <1>2 DEF Uses
  <2> QED BY <1>1, <1>2, <2>1 DEF UsesDone
<1>7. ASSUME NEW k \in Defs(x)
      PROVE  x.ops[k].reg \in PhysReg /\ (x.ops[k].reg \in Allocatable => x.ops[k].reg \in recorded)
  <2>1. CASE x.ops[k].early
    BY <1>1, <2>1 DEF EarlyIn
  <2>2. CASE ~x.ops[k].early
    <3>1. k \in 1 .. Len(x.ops) /\ x.ops[k].def
      BY <1>2 DEF Defs
    <3>2. /\ x.ops[k].reg \in PhysReg
          /\ x.ops[k].reg \in Allocatable /\ (g.kind = "call" => k \in VirtEnd(g))
               => x.ops[k].reg \in UsedInInstr
      BY <1>2, <1>3, <2>2, <3>1 DEF DefsDone
    <3>3. CASE g.kind = "call" /\ k \notin VirtEnd(g)
      <4>1. k \in DOMAIN g.ops /\ g.ops[k].def
        BY <1>1, <1>2, <3>1 DEF Matches, Alike, SameOperand
      <4>2. g.ops[k].reg = x.ops[k].reg
        <5>1. g.ops[k].reg \notin VirtReg
          BY <1>2, <3>1, <3>3, <4>1 DEF VirtEnd, IsVirt
        <5> QED BY <1>1, <4>1, <5>1 DEF Matches
      <4>3. k \in Defs(Given) /\ Given.ops[k].imp
        BY <1>2, <1>4, <3>3, <4>1 DEF Defs
      <4>4. Given.ops[k].reg \in recorded
        BY <1>2, <3>3, <4>3
      <4> QED BY <1>2, <3>2, <4>2, <4>4
    <3> QED BY <3>2, <3>3
  <2> QED BY <2>1, <2>2
<1>8. Loads(x) \cap Allocatable \subseteq recorded
  BY <1>1 DEF EarlyIn
<1>9. Done(x, recorded)
  BY <1>5, <1>6, <1>7, <1>8 DEF Done
<1> QED BY <1>9 DEF x

LEMMA EndOfInstrCode == IInv /\ CodeInv /\ EndOfInstr => CodeInv'
<1> SUFFICES ASSUME IInv, CodeInv, EndOfInstr PROVE CodeInv'
  OBVIOUS
<1> DEFINE V == VirtDead \cap DOMAIN LiveVirtRegs
           killed == killVirtRegs(RAFast, V)
           gone == CopyDst # NoReg /\ CopyDst = CopySrc
           z == [killed EXCEPT !.MBB = [killed.MBB EXCEPT ![MI].gone = gone]]
<1>1. /\ Become(z) /\ phase = "defs" /\ phase' = "instr" /\ ~unreachable /\ Next1(DefScan) = {}
      /\ PhysRegsUsed' = PhysRegsUsed \cup UsedInInstr
           \cup IF Given.kind = "call" THEN {Given.ops[k].reg : k \in {j \in Defs(Given) : Given.ops[j].imp}}
                ELSE {}
      /\ MI' = MI + 1 /\ UNCHANGED <<fn, unreachable, op, blocks>>
  BY DEF EndOfInstr
<1>2. /\ MBB \in Seq(AInstr) /\ MI \in 1 .. Len(MBB) /\ InOrder(RAFast) /\ RAFast.MBB = MBB
  BY <1>1, AtInstr
<1>3. \A v \in V : RAFast.LiveVirtRegs[v].PhysReg \in PhysReg
  BY <1>2 DEF InOrder, LiveOK, RAFast
<1>4. V \in SUBSET VirtReg
  BY DEF IInv, InOrder, LiveOK, RAFast
<1>5. gone \in BOOLEAN
  OBVIOUS
<1> HIDE DEF V, gone
<1>6. Kept(MBB, killed.MBB, MI, {}) /\ InOrder(killed)
  BY <1>2, <1>3, <1>4, KillKeepsCode, KillKeepsOrder DEF InOrder
<1> HIDE DEF killed
<1>7. Kept(MBB, MBB', MI, {})
  <2> DEFINE d == [killed.MBB EXCEPT ![MI].gone = gone]
  <2>1. killed.MBB \in Seq(AInstr) /\ MI \in 1 .. Len(killed.MBB)
    BY <1>2, <1>6 DEF Kept
  <2>2. Kept(killed.MBB, d, MI, {})
    BY <1>5, <2>1, GoneSet
  <2> HIDE DEF d
  <2>3. Kept(MBB, d, MI, {})
    BY <1>2, <1>6, <2>2, KeptTwice
  <2>4. z.MBB = d
    BY <1>6, OtherMembers DEF InOrder, d
  <2> QED BY <1>1, <2>3, <2>4 DEF Become
<1> HIDE DEF z
<1>8. Source' = Source /\ Current' = Current
  BY <1>1 DEF Source, Current
<1>9. CodeOK(MBB', Source, MI, PhysRegsUsed')
  <2>1. CodeOK(MBB', Source, MI, PhysRegsUsed)
    BY <1>1, <1>7, CodeStaysOK DEF CodeInv
  <2> QED BY <1>1, <2>1, MoreRecorded
<1>10. Done(MBB'[MI], PhysRegsUsed')
  <2>1. Done(MBB[MI], PhysRegsUsed')
    BY <1>1, InstrIsDone
  <2>2. Alike(MBB[MI], MBB'[MI]) /\ SameRegs(MBB[MI], MBB'[MI]) /\ Loads(MBB'[MI]) \subseteq Loads(MBB[MI])
    BY <1>2, <1>7 DEF Kept
  <2>3. {MBB'[MI].ops[k].reg : k \in Defs(MBB'[MI])} \subseteq {MBB[MI].ops[k].reg : k \in Defs(MBB[MI])}
    BY <2>2 DEF Alike, SameRegs, SameOperand, Defs
  <2> QED BY <2>1, <2>2, <2>3 DEF Done, Alike, SameRegs
<1>11. MI < Len(MBB) /\ Len(MBB') = Len(MBB)
  BY <1>1, <1>7 DEF CodeInv, Kept
<1>12. CodeOK(MBB', Source, MI + 1, PhysRegsUsed')
  BY <1>9, <1>10, <1>11 DEF CodeOK
<1>13. Fresh(Source[MI + 1], MBB'[MI + 1])
  BY <1>9, <1>11 DEF CodeOK
<1>14. InstrOK("instr", Source[MI + 1], MBB'[MI + 1], op, UsedInInstr', PhysRegsUsed')
  BY <1>13, FreshMatches DEF InstrOK
<1>15. CodeOK(MBB, Source, MI, PhysRegsUsed)'
  BY <1>1, <1>8, <1>12
<1>16. InstrOK(phase, Source[MI], MBB[MI], op, UsedInInstr, PhysRegsUsed)'
  BY <1>1, <1>8, <1>14
<1>17. \A b \in DOMAIN blocks' : \A i \in DOMAIN blocks'[b] : Done(blocks'[b][i], PhysRegsUsed')
  BY <1>1, DoneStays DEF CodeInv
<1> QED BY <1>1, <1>8, <1>15, <1>16, <1>17 DEF CodeInv

LEMMA FirstTerminatorIsThere ==
  ASSUME Len(MBB) \in Nat \ {0}, DOMAIN MBB = 1 .. Len(MBB)
  PROVE  FirstTerminator \in 1 .. Len(MBB)
<1> DEFINE ends == {i \in DOMAIN MBB : MBB[i].kind = "term"} \cup {Len(MBB)}
<1>1. ends \in SUBSET (1 .. Len(MBB)) /\ ends # {}
  OBVIOUS
<1>2. \E i \in ends : \A j \in ends : i <= j
  BY <1>1, Least
<1>3. FirstTerminator = CHOOSE i \in ends : \A j \in ends : i <= j
  BY DEF FirstTerminator
<1> HIDE DEF ends
<1> QED BY <1>1, <1>2, <1>3

\* At its end the whole block is done, the empty instruction too.
LEMMA EndOfBlockCode == IInv /\ CodeInv /\ EndOfBlock => CodeInv'
<1> SUFFICES ASSUME IInv, CodeInv, EndOfBlock PROVE CodeInv'
  OBVIOUS
<1> DEFINE spilled == spillAll(RAFast, FirstTerminator)
           d == spilled.MBB
<1>1. /\ phase = "instr" /\ MI = Len(MBB) /\ phase' = "block" /\ blocks' = Append(blocks, d)
      /\ UNCHANGED <<fn, PhysRegsUsed, unreachable, op>>
  BY DEF EndOfBlock, scanVars
<1>2. /\ MBB \in Seq(AInstr) /\ MI \in 1 .. Len(MBB) /\ InOrder(RAFast) /\ RAFast.MBB = MBB
  BY <1>1, AtInstr
<1>3. FirstTerminator \in 1 .. Len(MBB)
  BY <1>2, FirstTerminatorIsThere
<1>4. Kept(MBB, d, FirstTerminator, {})
  BY <1>2, <1>3, SpillKeepsCode DEF spillAll, Live
<1> HIDE DEF spilled
<1>5. CodeOK(MBB, Source, MI, PhysRegsUsed) /\ ~unreachable /\ Fresh(Source[MI], MBB[MI])
  BY <1>1 DEF CodeInv, InstrOK
<1>6. Source[MI].ops = <<>>
  <2>1. fn[Current] \in Block
    BY <1>1, RegAllocAssumption DEF CodeInv
  <2>2. fn[Current].code \in Seq(Instr)
    BY <2>1 DEF Block
  <2>3. MI = Len(fn[Current].code) + 1
    BY <1>1, <1>5, <2>2 DEF CodeOK, Source
  <2> QED BY <2>2, <2>3 DEF Source
<1>7. Done(MBB[MI], PhysRegsUsed)
  BY <1>5, <1>6 DEF Done, Fresh, Alike, Defs
<1>8. ASSUME NEW i \in 1 .. Len(MBB) PROVE Done(d[i], PhysRegsUsed)
  <2>1. Done(MBB[i], PhysRegsUsed)
    BY <1>1, <1>5, <1>7 DEF CodeOK
  <2>2. Alike(MBB[i], d[i]) /\ SameRegs(MBB[i], d[i]) /\ Loads(d[i]) \subseteq Loads(MBB[i])
    BY <1>4 DEF Kept
  <2>3. {d[i].ops[k].reg : k \in Defs(d[i])} \subseteq {MBB[i].ops[k].reg : k \in Defs(MBB[i])}
    BY <2>2 DEF Alike, SameRegs, SameOperand, Defs
  <2> QED BY <2>1, <2>2, <2>3 DEF Done, Alike, SameRegs
<1>9. d \in Seq(AInstr) /\ Len(d) = Len(MBB)
  BY <1>4 DEF Kept
<1> HIDE DEF d
<1>10. \A i \in DOMAIN d : Done(d[i], PhysRegsUsed)
  BY <1>8, <1>9
<1>11. /\ blocks' \in Seq(Seq(AInstr))
       /\ \A b \in DOMAIN blocks' : \A i \in DOMAIN blocks'[b] : Done(blocks'[b][i], PhysRegsUsed)
  <2>1. blocks \in Seq(Seq(AInstr))
    BY DEF CodeInv
  <2>2. \A b \in DOMAIN blocks' : blocks'[b] = d \/ (b \in DOMAIN blocks /\ blocks'[b] = blocks[b])
    BY <1>1, <1>9, <2>1
  <2>3. \A b \in DOMAIN blocks : \A i \in DOMAIN blocks[b] : Done(blocks[b][i], PhysRegsUsed)
    BY DEF CodeInv
  <2> QED BY <1>1, <1>9, <1>10, <2>1, <2>2, <2>3
<1> QED BY <1>1, <1>5, <1>11 DEF CodeInv

\* The run changes nothing of the code.
LEMMA RunCode ==
  CodeInv /\ (EndOfFunction \/ RunMoves \/ Execute \/ Branch \/ UNCHANGED vars) => CodeInv'
<1> SUFFICES ASSUME CodeInv
             PROVE  EndOfFunction \/ RunMoves \/ Execute \/ Branch \/ UNCHANGED vars => CodeInv'
  OBVIOUS
<1>1. ASSUME EndOfFunction \/ RunMoves \/ Execute \/ Branch PROVE CodeInv'
  <2>1. /\ UNCHANGED <<fn, op, unreachable, blocks, PhysRegsUsed>>
        /\ phase \in {"block", "run"} /\ phase' = "run"
    BY <1>1 DEF EndOfFunction, RunMoves, Execute, Branch, raVars, scanVars
  <2> QED BY <2>1 DEF CodeInv
<1>2. ASSUME UNCHANGED vars PROVE CodeInv'
  <2>1. /\ UNCHANGED <<fn, op, unreachable, blocks, PhysRegsUsed, phase, MBB, MI, UsedInInstr>>
    BY <1>2 DEF vars, raVars, scanVars
  <2>2. Source' = Source /\ Current' = Current
    BY <2>1 DEF Source, Current
  <2> QED BY <2>1, <2>2 DEF CodeInv
<1> QED BY <1>1, <1>2

LEMMA CodeStep == IInv /\ CodeInv /\ [Next]_vars => CodeInv'
<1> SUFFICES ASSUME IInv, CodeInv, [Next]_vars PROVE CodeInv'
  OBVIOUS
<1>1. CASE BeginBlock
  BY <1>1, BeginBlockCode
<1>2. CASE BeginInstr
  BY <1>2, BeginInstrCode
<1>3. CASE ScanUsePhysReg \/ ScanEarlyPhysReg \/ CollidingPhysDef
  BY <1>3, FirstScanCode
<1>4. CASE EndOfFirstScan
  BY <1>4, EndOfFirstScanCode
<1>5. CASE EndOfCollisions
  BY <1>5, EndOfCollisionsCode
<1>6. CASE ThroughUse \/ EarlyClobber
  BY <1>6, ThroughCode
<1>7. CASE EndOfThrough
  BY <1>7, EndOfThroughCode
<1>8. CASE VirtUse
  BY <1>8, VirtUseCode
<1>9. CASE EndOfUses
  BY <1>9, EndOfUsesCode
<1>10. CASE DefinePhysReg
  BY <1>10, DefinePhysCode
<1>11. CASE DefineVirtReg
  BY <1>11, DefineVirtCode
<1>12. CASE EndOfInstr
  BY <1>12, EndOfInstrCode
<1>13. CASE EndOfBlock
  BY <1>13, EndOfBlockCode
<1>14. CASE EndOfFunction \/ RunMoves \/ Execute \/ Branch \/ UNCHANGED vars
  BY <1>14, RunCode
<1> QED BY <1>1, <1>2, <1>3, <1>4, <1>5, <1>6, <1>7, <1>8, <1>9, <1>10, <1>11, <1>12, <1>13, <1>14
        DEF Next

\* What the invariant says of the blocks that are allocated.
LEMMA CodeInvAllocates == CodeInv => AllocatedCode
<1> SUFFICES ASSUME CodeInv, NEW b \in DOMAIN blocks, NEW i \in DOMAIN blocks[b]
             PROVE  LET ins == blocks[b][i]
                        loaded == {m.phys : m \in UNION {{x \in ins.moves[j] : x.load} :
                                                         j \in DOMAIN ins.moves}}
                        defined == {ins.ops[k].reg : k \in Defs(ins)}
                    IN /\ \A k \in DOMAIN ins.ops : ins.ops[k].reg \in PhysReg
                       /\ ~ins.gone => (loaded \cup defined) \cap Allocatable \subseteq PhysRegsUsed
  BY DEF AllocatedCode
<1>1. Done(blocks[b][i], PhysRegsUsed)
  BY DEF CodeInv
<1> QED BY <1>1 DEF Done, Loads

\* However the registers of a target overlap, whatever order they are taken in and whatever
\* the function: the code AllocateBasicBlock leaves names no virtual register, and every
\* allocatable register it writes, loads included, is recorded for the prologue.
THEOREM CodeIsAllocated == Spec => []AllocatedCode
<1>1. Init => IInv /\ CodeInv
  BY Initially, CodeInitially
<1>2. IInv /\ CodeInv /\ [Next]_vars => (IInv /\ CodeInv)'
  BY IInvStep, CodeStep
<1>3. CodeInv => AllocatedCode
  BY CodeInvAllocates
<1> QED BY <1>1, <1>2, <1>3, PTL DEF Spec
=============================================================================
