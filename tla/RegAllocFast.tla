----------------------------- MODULE RegAllocFast -----------------------------
(***************************************************************************)
(* The fast register allocator, lib/CodeGen/RegAllocFast.cpp: one pass     *)
(* over every block, keeping virtual registers in physical ones, loading   *)
(* them from their stack slots when they are wanted and storing them when  *)
(* they are displaced, before a call and at the end of the block. Then the *)
(* allocated code runs next to the code it was made from.                  *)
(*                                                                         *)
(* Instructions are allocated operand by operand, as the code scans them.  *)
(* Of an allocated instruction the model keeps its operands, the stores    *)
(* and loads inserted before it, the registers addRegisterKilled added and *)
(* whether it was coalesced. Every block has an empty instruction at its   *)
(* end, for what is inserted there.                                        *)
(***************************************************************************)
EXTENDS Machine, FiniteSets

CONSTANTS
  Functions, MaxVisits,
  Order,        \* the allocation order of a virtual register's class
  Allocatable,
  Disabled, Free, Reserved, NoReg

\* The registers live into a block do not overlap.
LiveInsApart(f) ==
  \A b \in DOMAIN f : \A i, j \in DOMAIN f[b].livein : f[b].livein[i] \notin Aliases(f[b].livein[j])

\* What a call defines after its virtual operands, it defines implicitly: the scan for
\* definitions ends with the virtual operands, and the others are recorded by its kind.
CallsDefineImplicitly(f) ==
  \A b \in DOMAIN f : \A i \in DOMAIN f[b].code :
    f[b].code[i].kind = "call" =>
      \A k \in Defs(f[b].code[i]) :
        \/ f[b].code[i].ops[k].imp
        \/ \E j \in DOMAIN f[b].code[i].ops : j >= k /\ f[b].code[i].ops[j].reg \in VirtReg

ASSUME RegAllocAssumption ==
  /\ \A f \in Functions : LiveInsApart(f) /\ CallsDefineImplicitly(f)
  /\ Functions \subseteq Seq(Block) /\ MaxVisits \in Nat
  /\ Order \in [VirtReg -> Seq(PhysReg)]
  /\ Allocatable \subseteq PhysReg
  /\ Cardinality({Disabled, Free, Reserved, NoReg}) = 4
  /\ {Disabled, Free, Reserved, NoReg} \cap (VirtReg \cup PhysReg) = {}

VARIABLES
  fn,                  \* the given function
  phase,               \* what AllocateBasicBlock is doing
  PhysRegState, LiveVirtRegs, UsedInInstr,
  StackSlots,          \* the virtual registers that have a StackSlotForVirtReg
  PhysRegsUsed,        \* MRI's record for the prologue
  MBB,                 \* the block being allocated
  MI, op,              \* the instruction and operand the scan is at
  VirtDead, CopySrc, CopyDst,
  unreachable,         \* an llvm_unreachable or report_fatal_error was reached
  blocks,              \* the blocks allocated
  at, visits, regs,    \* where the run is, and the registers as given ...
  file, seen, moved    \* ... and as allocated; what was read; moves made at at

raVars == <<PhysRegState, LiveVirtRegs, UsedInInstr, StackSlots, PhysRegsUsed, MBB,
            unreachable>>
scanVars == <<MI, op, VirtDead, CopySrc, CopyDst>>
runVars == <<at, visits, regs, file, seen, moved>>
vars == <<fn, phase, raVars, scanVars, blocks, runVars>>

Code == INSTANCE MachineCode WITH regs <- regs, reads <- seen

Phase == {"block", "instr", "first", "collide", "through", "uses", "defs", "run"}
LiveReg(l) == l = [PhysReg |-> l.PhysReg, Dirty |-> l.Dirty,
                   LastUse |-> l.LastUse, LastOpNum |-> l.LastOpNum]

------------------------------------------------------------------------------
(* The allocator's own operations take and return the state ra of RAFast. *)

RAFast == [PhysRegState |-> PhysRegState, LiveVirtRegs |-> LiveVirtRegs,
           UsedInInstr |-> UsedInInstr, StackSlots |-> StackSlots, MBB |-> MBB]

Live(ra) == DOMAIN ra.LiveVirtRegs
Drop(live, V) == [v \in DOMAIN live \ V |-> live[v]]
Held(ra, R) == {ra.PhysRegState[p] : p \in R} \cap VirtReg

IsTiedUse(o) == ~o.def /\ o.tied # 0

\* addKillFlag, for all of V: its last use kills the register.
KillFlags(ra, V) ==
  LET At(v) == ra.LiveVirtRegs[v].LastOpNum
      Register(v) == ra.LiveVirtRegs[v].PhysReg
      Killers(i) == {v \in V : ra.LiveVirtRegs[v].LastUse = i
                       /\ LET o == ra.MBB[i].ops[At(v)] IN ~o.def /\ ~IsTiedUse(o)}
      Kills(i, k) == \E v \in Killers(i) : At(v) = k /\ ra.MBB[i].ops[k].reg = Register(v)
      Elsewhere(i) == {v \in Killers(i) : ra.MBB[i].ops[At(v)].reg # Register(v)}
  IN [i \in DOMAIN ra.MBB |-> [ra.MBB[i] EXCEPT
        !.ops = [k \in DOMAIN ra.MBB[i].ops |->
                   [ra.MBB[i].ops[k] EXCEPT !.kill = @ \/ Kills(i, k)]],
        !.kills = @ \cup {Register(v) : v \in Elsewhere(i)}]]

KillFlagged(ra, V) == [ra EXCEPT !.MBB = KillFlags(ra, V)]

\* Mutant: the register is free, and the entry stays.
killRegistersOf(ra, V) ==
  [KillFlagged(ra, V) EXCEPT !.PhysRegState = [p \in PhysReg |-> IF @[p] \in V THEN Free ELSE @[p]]]

killVirtRegs(ra, V) ==
  LET flagged == KillFlagged(ra, V)
  IN [flagged EXCEPT
        !.PhysRegState = [p \in PhysReg |-> IF @[p] \in V THEN Free ELSE @[p]],
        !.LiveVirtRegs = Drop(@, V)]

\* spillVirtReg for every member of V, whose stores do not depend on one another.
\* When the store kills the register no earlier instruction does.
spillVirtRegs(ra, mi, V) ==
  LET dirty == {v \in V : ra.LiveVirtRegs[v].Dirty}
      spillKill == {v \in dirty : ra.LiveVirtRegs[v].LastUse # mi}
      stores == {[virt |-> v, phys |-> ra.LiveVirtRegs[v].PhysReg, load |-> FALSE,
                  kill |-> v \in spillKill] : v \in dirty}
      killers == [v \in Live(ra) |-> IF v \in spillKill
                    THEN [ra.LiveVirtRegs[v] EXCEPT !.LastUse = 0] ELSE ra.LiveVirtRegs[v]]
      code == [ra.MBB EXCEPT ![mi].moves = IF stores = {} THEN @ ELSE Append(@, stores)]
  IN killVirtRegs([ra EXCEPT !.StackSlots = @ \cup dirty, !.MBB = code,
                             !.LiveVirtRegs = killers], V)

spillAll(ra, mi) == spillVirtRegs(ra, mi, Live(ra))

InState(ra, S) == {p \in PhysReg : ra.PhysRegState[p] \in S}

\* The aliases of p that a loop looks at which returns at the first one in Last.
Until(p, Last) ==
  {AliasSet[p][i] : i \in {j \in DOMAIN AliasSet[p] :
                             \A k \in 1..(j - 1) : AliasSet[p][k] \notin Last}}

definePhysReg(ra, mi, p, newState) ==
  IF ra.PhysRegState[p] # Disabled
    THEN [spillVirtRegs(ra, mi, Held(ra, {p})) EXCEPT
            !.PhysRegState[p] = newState, !.UsedInInstr = @ \cup {p}]
    ELSE LET reached == Until(p, {q \in PhysReg \ InState(ra, {Disabled}) :
                                    isSuperRegister(p, q)})
             spilled == spillVirtRegs(ra, mi, Held(ra, reached))
         IN [spilled EXCEPT
               !.PhysRegState = [q \in PhysReg |-> IF q = p THEN newState
                                   ELSE IF q \in reached THEN Disabled ELSE @[q]],
               !.UsedInInstr = @ \cup {p} \cup reached]

\* The register a use of p kills: p, or the one in the working set p is a part of.
InWorkingSet(ra, p) ==
  InState(ra, {Reserved}) \cup {q \in InState(ra, {Free}) : isSuperRegister(p, q)}

UsedAs(ra, p) ==
  LET found == Until(p, InWorkingSet(ra, p)) \cap InWorkingSet(ra, p)
  IN IF ra.PhysRegState[p] = Disabled /\ found # {} THEN CHOOSE q \in found : TRUE ELSE p

usePhysReg(ra, mi, p) ==
  LET q == UsedAs(ra, p)
      others == IF ra.PhysRegState[p] # Disabled THEN {}
                ELSE Until(p, InWorkingSet(ra, p)) \cap (InState(ra, {Free}) \ {q})
  IN [ra EXCEPT
        !.PhysRegState = [r \in PhysReg |-> IF r = q THEN Free
                            ELSE IF r \in others THEN Disabled ELSE @[r]],
        !.UsedInInstr = @ \cup {q},
        !.MBB[mi].kills = @ \cup {q}]

\* What usePhysReg takes to be impossible.
UsesAllocated(ra, p) ==
  \/ ra.PhysRegState[p] \in VirtReg
  \/ /\ ra.PhysRegState[p] = Disabled
     /\ \E q \in Until(p, InWorkingSet(ra, p)) :
          \/ ra.PhysRegState[q] \in VirtReg
          \/ ra.PhysRegState[q] = Reserved /\ ~isSuperRegister(p, q)

spillClean == 1
spillDirty == 100
spillImpossible == 1000000

calcSpillCost(ra, p) ==
  LET Dirty(R) == {q \in R : \E v \in Live(ra) :
                     ra.PhysRegState[q] = v /\ ra.LiveVirtRegs[v].Dirty}
      occupied == {q \in Aliases(p) : ra.PhysRegState[q] # Disabled}
  IN IF p \in ra.UsedInInstr \/ ra.PhysRegState[p] = Reserved THEN spillImpossible
     ELSE IF ra.PhysRegState[p] = Free THEN 0
     ELSE IF ra.PhysRegState[p] \in VirtReg
       THEN IF Dirty({p}) # {} THEN spillDirty ELSE spillClean
     ELSE IF Aliases(p) \cap (ra.UsedInInstr \cup InState(ra, {Reserved})) # {}
       THEN spillImpossible
     ELSE spillDirty * Cardinality(Dirty(occupied))
            + spillClean * Cardinality(occupied \ Dirty(occupied))

\* The register allocVirtReg takes: the hint if it can be had, else the first
\* free one of the class, else the first of the cheapest.
Taken(ra, v, hint) ==
  LET order == Order[v]
      class == {i \in DOMAIN order : order[i] \in Allocatable}
      Cost(i) == calcSpillCost(ra, order[i])
      free == {i \in class : order[i] \in InState(ra, {Free}) \ ra.UsedInInstr}
      cheapest == {i \in class : Cost(i) < spillImpossible /\ \A j \in class : Cost(i) <= Cost(j)}
      First(I) == order[CHOOSE i \in I : \A j \in I : i <= j]
  IN IF (\E i \in class : order[i] = hint) /\ calcSpillCost(ra, hint) < spillImpossible
       THEN hint
     ELSE IF free # {} THEN First(free)
     ELSE IF cheapest # {} THEN First(cheapest)
     ELSE NoReg

\* allocVirtReg, for a register there is.
allocVirtReg(ra, mi, v, hint) ==
  LET p == Taken(ra, v, hint)
      cleared == IF calcSpillCost(ra, p) = 0 THEN ra ELSE definePhysReg(ra, mi, p, Free)
  IN [cleared EXCEPT
        !.PhysRegState[p] = v,
        !.LiveVirtRegs = [u \in DOMAIN @ \cup {v} |->
           IF u = v THEN [PhysReg |-> p, Dirty |-> FALSE, LastUse |-> 0, LastOpNum |-> 0]
           ELSE @[u]]]

\* The operands that still name v, in this block and those to come.
Current == Len(blocks) + 1
CodeLeft(ra) == [b \in Current..Len(fn) |-> IF b = Current THEN ra.MBB ELSE fn[b].code]
References(ra, v) ==
  UNION {UNION {{<<b, i, k>> : k \in {j \in DOMAIN CodeLeft(ra)[b][i].ops :
                                        CodeLeft(ra)[b][i].ops[j].reg = v}} :
                i \in DOMAIN CodeLeft(ra)[b]} : b \in DOMAIN CodeLeft(ra)}

\* Mutant: a register whose value is also on the stack counts as local.
isLastReference(ra, mi, k, v) == References(ra, v) = {<<Current, mi, k>>}

\* Every other reference has been allocated, and none of them through the stack.
isLastUseOfLocalReg(ra, mi, k, v) ==
  References(ra, v) = {<<Current, mi, k>>} /\ v \notin ra.StackSlots

\* Without a hint, the destination of a copy that is the only use is one.
HintFor(ra, v, hint) ==
  LET code == CodeLeft(ra)
      uses == {r \in References(ra, v) : ~code[r[1]][r[2]].ops[r[3]].def}
      copies == {r \in uses : uses = {r} /\ code[r[1]][r[2]].kind = "copy"}
  IN IF hint \in PhysReg \/ copies = {} THEN hint
     ELSE LET r == CHOOSE r \in copies : TRUE IN code[r[1]][r[2]].ops[1].reg

\* Mutant: the register is not marked as used by the instruction.
SeenUnmarked(ra, mi, k, v, dirty) ==
  [ra EXCEPT
     !.LiveVirtRegs[v] = [@ EXCEPT !.LastUse = mi, !.LastOpNum = k, !.Dirty = dirty],
     !.MBB[mi].ops[k].reg = ra.LiveVirtRegs[v].PhysReg]

\* What defineVirtReg and reloadVirtReg have in common: operand k is where v was
\* last seen, and setPhysReg puts its register there.
Seen(ra, mi, k, v, dirty) ==
  LET p == ra.LiveVirtRegs[v].PhysReg
  IN [ra EXCEPT
        !.LiveVirtRegs[v] = [@ EXCEPT !.LastUse = mi, !.LastOpNum = k, !.Dirty = dirty],
        !.UsedInInstr = @ \cup {p},
        !.MBB[mi].ops[k].reg = p]

\* A register that is defined again was killed where it was last used.
defineVirtReg(ra, mi, k, v, hint) ==
  LET there == IF v \in Live(ra) THEN KillFlagged(ra, {v})
               ELSE allocVirtReg(ra, mi, v, HintFor(ra, v, hint))
  IN Seen(there, mi, k, v, TRUE)

\* A kill flag on a register that was stored would have it loaded twice.
reloadVirtReg(ra, mi, k, v, hint) ==
  IF v \in Live(ra)
    THEN LET dirty == ra.LiveVirtRegs[v].Dirty
             last == dirty /\ isLastUseOfLocalReg(ra, mi, k, v)
         IN Seen([ra EXCEPT !.MBB[mi].ops[k].kill = last], mi, k, v, dirty)
    ELSE LET there == allocVirtReg(ra, mi, v, hint)
             load == [virt |-> v, phys |-> there.LiveVirtRegs[v].PhysReg,
                      load |-> TRUE, kill |-> FALSE]
         IN Seen([there EXCEPT !.StackSlots = @ \cup {v},
                               !.MBB[mi].moves = Append(@, {load})], mi, k, v, FALSE)

OutOfRegisters(ra, v, hint) == v \notin Live(ra) /\ Taken(ra, v, hint) = NoReg

------------------------------------------------------------------------------
(* AllocateBasicBlock. *)

Given == fn[Current].code[MI]   \* the instruction before it was touched
Ops == MBB[MI].ops              \* and its operands as they are now
IsVirt(o) == o.reg \in VirtReg

\* The next operand of a scan that the scan does anything for.
Next1(I) == {k \in I : k >= op /\ \A j \in I : j >= op => k <= j}

HasEarlyClobbers ==
  \E k \in Defs(Given) : Given.ops[k].early /\ Given.ops[k].reg \in VirtReg \cup Allocatable
HasTiedOps == \E k \in Uses(Given) : Given.ops[k].tied # 0 /\ IsVirt(Given.ops[k])
HasPhysDefs ==
  \E k \in Defs(Given) : Given.ops[k].reg \in Allocatable /\ ~Given.ops[k].early
NumDefs == Cardinality({k \in Defs(Given) : ~Given.ops[k].imp})
HasThroughOperands ==
  Given.kind = "asm" \/ HasEarlyClobbers \/ (HasTiedOps /\ (HasPhysDefs \/ NumDefs > 1))
ThroughRegs ==
  {Given.ops[k].reg : k \in {j \in DOMAIN Given.ops :
     IsVirt(Given.ops[j]) /\ (Given.ops[j].early \/ IsTiedUse(Given.ops[j]))}}

VirtOpEnd == {k \in DOMAIN Given.ops : \E j \in DOMAIN Given.ops : j >= k /\ IsVirt(Given.ops[j])}

FirstScan == {k \in DOMAIN Ops : Ops[k].reg \in Allocatable /\ (Ops[k].def => Ops[k].early)}
CollideScan == {k \in DOMAIN Ops : Ops[k].def /\ ~IsVirt(Ops[k])}
ThroughScan ==
  {k \in DOMAIN Ops : IsVirt(Ops[k]) /\ IF Ops[k].def THEN Ops[k].early ELSE IsTiedUse(Ops[k])}
UseScan == {k \in DOMAIN Ops : IsVirt(Ops[k]) /\ ~Ops[k].def}
DefScan ==
  {k \in DOMAIN Ops : /\ Ops[k].def /\ ~Ops[k].early
                      /\ Ops[k].reg \in VirtReg \cup Allocatable
                      /\ Given.kind = "call" => k \in VirtOpEnd}

WithAliases(K) == UNION {{Ops[k].reg} \cup Aliases(Ops[k].reg) : k \in K}

Become(ra) ==
  /\ PhysRegState' = ra.PhysRegState /\ LiveVirtRegs' = ra.LiveVirtRegs
  /\ UsedInInstr' = ra.UsedInInstr /\ StackSlots' = ra.StackSlots /\ MBB' = ra.MBB

Fails ==
  /\ unreachable' = TRUE
  /\ UNCHANGED <<PhysRegState, LiveVirtRegs, UsedInInstr, StackSlots, MBB>>

Untouched(code) ==
  Append([i \in DOMAIN code |-> [kind |-> code[i].kind, ops |-> code[i].ops,
                                 moves |-> <<>>, kills |-> {}, gone |-> FALSE]],
         [kind |-> "op", ops |-> <<>>, moves |-> <<>>, kills |-> {}, gone |-> FALSE])

Init ==
  /\ fn \in Functions
  /\ phase = "block"
  /\ PhysRegState = [p \in PhysReg |-> Disabled] /\ LiveVirtRegs = <<>>
  /\ UsedInInstr = {} /\ StackSlots = {} /\ PhysRegsUsed = {} /\ MBB = <<>>
  /\ unreachable = FALSE
  /\ MI = 1 /\ op = 1 /\ VirtDead = {} /\ CopySrc = NoReg /\ CopyDst = NoReg
  /\ blocks = <<>>
  /\ at = Code!Start /\ visits = 1 /\ moved = 0 /\ seen = <<>>
  /\ regs = Code!Entered(fn) /\ file = Code!Entered(fn)

\* Registers live into the block are reserved.
BeginBlock ==
  /\ phase = "block"
  /\ Current \in DOMAIN fn
  /\ LET livein == {fn[Current].livein[i] : i \in DOMAIN fn[Current].livein}
     IN PhysRegState' = [p \in PhysReg |-> IF p \in livein \cap Allocatable THEN Reserved
                                           ELSE Disabled]
  /\ MBB' = Untouched(fn[Current].code)
  /\ MI' = 1
  /\ phase' = "instr"
  /\ UNCHANGED <<fn, LiveVirtRegs, UsedInInstr, StackSlots, PhysRegsUsed, unreachable,
                 op, VirtDead, CopySrc, CopyDst, blocks, runVars>>

BeginInstr ==
  /\ phase = "instr"
  /\ MI < Len(MBB)
  /\ CopyDst' = IF Given.kind = "copy" THEN Given.ops[1].reg ELSE NoReg
  /\ CopySrc' = IF Given.kind = "copy" THEN Given.ops[2].reg ELSE NoReg
  /\ UsedInInstr' = {} /\ VirtDead' = {}
  /\ op' = 1
  /\ phase' = "first"
  /\ UNCHANGED <<fn, PhysRegState, LiveVirtRegs, StackSlots, PhysRegsUsed, MBB, unreachable,
                 MI, blocks, runVars>>

\* What the steps of a scan leave alone.
Scanning(scan) ==
  /\ phase = scan /\ ~unreachable
  /\ UNCHANGED <<fn, phase, PhysRegsUsed, MI, blocks, runVars>>

ScanUsePhysReg ==
  /\ Scanning("first")
  /\ \E k \in Next1(FirstScan) :
       /\ ~Ops[k].def
       /\ IF UsesAllocated(RAFast, Ops[k].reg) THEN Fails
          ELSE Become(usePhysReg(RAFast, MI, Ops[k].reg)) /\ UNCHANGED unreachable
       /\ op' = k + 1
  /\ UNCHANGED <<VirtDead, CopySrc, CopyDst>>

\* Mutant: no definition is reserved.
DefinedAsFree(o) == Free

\* An implicit or dead definition is not reserved: it is read at once or never.
DefinedState(o) == IF o.imp \/ o.kill THEN Free ELSE Reserved

ScanEarlyPhysReg ==
  /\ Scanning("first")
  /\ \E k \in Next1(FirstScan) :
       /\ Ops[k].def
       /\ Become(definePhysReg(RAFast, MI, Ops[k].reg, DefinedState(Ops[k])))
       /\ op' = k + 1
  /\ UNCHANGED <<VirtDead, CopySrc, CopyDst, unreachable>>

EndOfFirstScan ==
  /\ phase = "first" /\ ~unreachable
  /\ Next1(FirstScan) = {}
  /\ phase' = IF HasThroughOperands THEN "collide" ELSE "uses"
  /\ CopyDst' = IF HasThroughOperands THEN NoReg ELSE CopyDst
  /\ op' = 1
  /\ UNCHANGED <<fn, raVars, MI, VirtDead, CopySrc, blocks, runVars>>

\* handleThroughOperands: a register that is defined cannot hold a through register.
CollidingPhysDef ==
  /\ Scanning("collide")
  /\ \E k \in Next1(CollideScan) :
       LET defined == {Ops[k].reg} \cup Aliases(Ops[k].reg)
           colliding == {PhysRegState[p] : p \in defined} \cap ThroughRegs
       IN /\ Become([spillVirtRegs(RAFast, MI, colliding) EXCEPT
                       !.UsedInInstr = @ \cup defined])
          /\ op' = k + 1
  /\ UNCHANGED <<VirtDead, CopySrc, CopyDst, unreachable>>

EndOfCollisions ==
  /\ phase = "collide"
  /\ Next1(CollideScan) = {}
  /\ phase' = "through"
  /\ op' = 1
  /\ UNCHANGED <<fn, raVars, MI, VirtDead, CopySrc, CopyDst, blocks, runVars>>

ThroughUse ==
  /\ Scanning("through")
  /\ \E k \in Next1(ThroughScan) :
       LET v == Ops[k].reg
       IN /\ ~Ops[k].def
          /\ IF OutOfRegisters(RAFast, v, NoReg) THEN Fails
             ELSE Become(reloadVirtReg(RAFast, MI, k, v, NoReg)) /\ UNCHANGED unreachable
          /\ op' = k + 1
  /\ UNCHANGED <<VirtDead, CopySrc, CopyDst>>

EarlyClobber ==
  /\ Scanning("through")
  /\ \E k \in Next1(ThroughScan) :
       LET v == Ops[k].reg
       IN /\ Ops[k].def
          /\ IF OutOfRegisters(RAFast, v, HintFor(RAFast, v, NoReg)) THEN Fails
             ELSE Become(defineVirtReg(RAFast, MI, k, v, NoReg)) /\ UNCHANGED unreachable
          /\ VirtDead' = IF Ops[k].kill THEN VirtDead \cup {v} ELSE VirtDead
          /\ op' = k + 1
  /\ UNCHANGED <<CopySrc, CopyDst>>

EndOfThrough ==
  /\ phase = "through" /\ ~unreachable
  /\ Next1(ThroughScan) = {}
  /\ UsedInInstr' = WithAliases({k \in DOMAIN Ops : ~IsVirt(Ops[k]) /\ (Ops[k].def => Ops[k].early)})
  /\ phase' = "uses"
  /\ op' = 1
  /\ UNCHANGED <<fn, PhysRegState, LiveVirtRegs, StackSlots, PhysRegsUsed, MBB, unreachable,
                 MI, VirtDead, CopySrc, CopyDst, blocks, runVars>>

VirtUse ==
  /\ Scanning("uses")
  /\ \E k \in Next1(UseScan) :
       LET v == Ops[k].reg
           next == reloadVirtReg(RAFast, MI, k, v, CopyDst)
           p == next.LiveVirtRegs[v].PhysReg
       IN /\ IF OutOfRegisters(RAFast, v, CopyDst) THEN Fails /\ UNCHANGED CopySrc
             ELSE /\ Become(IF next.MBB[MI].ops[k].kill THEN killVirtRegs(next, {v}) ELSE next)
                  /\ CopySrc' = IF CopySrc \in {v, p} THEN p ELSE NoReg
                  /\ UNCHANGED unreachable
          /\ op' = k + 1
  /\ UNCHANGED <<VirtDead, CopyDst>>

\* Through registers are kept from the definitions; everything is stored before a call.
EndOfUses ==
  /\ phase = "uses" /\ ~unreachable
  /\ Next1(UseScan) = {}
  /\ PhysRegsUsed' = PhysRegsUsed \cup UsedInInstr
  /\ LET used == IF HasThroughOperands
                   THEN WithAliases({k \in DOMAIN Ops : ~IsVirt(Ops[k]) /\
                                                        (Ops[k].def \/ IsTiedUse(Ops[k]))})
                   ELSE {}
         marked == [RAFast EXCEPT !.UsedInInstr = used]
     IN Become(IF Given.kind = "call" THEN spillAll(marked, MI) ELSE marked)
  /\ phase' = "defs"
  /\ op' = 1
  /\ UNCHANGED <<fn, unreachable, MI, VirtDead, CopySrc, CopyDst, blocks, runVars>>

DefinePhysReg ==
  /\ Scanning("defs")
  /\ \E k \in Next1(DefScan) :
       /\ ~IsVirt(Ops[k])
       /\ Become(definePhysReg(RAFast, MI, Ops[k].reg, DefinedState(Ops[k])))
       /\ op' = k + 1
  /\ UNCHANGED <<VirtDead, CopySrc, CopyDst, unreachable>>

DefineVirtReg ==
  /\ Scanning("defs")
  /\ \E k \in Next1(DefScan) :
       LET v == Ops[k].reg
           next == defineVirtReg(RAFast, MI, k, v, CopySrc)
           p == next.LiveVirtRegs[v].PhysReg
       IN /\ IsVirt(Ops[k])
          /\ IF OutOfRegisters(RAFast, v, HintFor(RAFast, v, CopySrc))
               THEN Fails /\ UNCHANGED <<VirtDead, CopyDst>>
             ELSE /\ Become(next)
                  /\ VirtDead' = IF Ops[k].kill THEN VirtDead \cup {v} ELSE VirtDead
                  /\ CopyDst' = IF CopyDst \in {v, p} /\ ~Ops[k].kill THEN p ELSE NoReg
                  /\ UNCHANGED unreachable
          /\ op' = k + 1
  /\ UNCHANGED CopySrc

\* A copy whose ends have come to share a register is coalesced.
EndOfInstr ==
  /\ phase = "defs" /\ ~unreachable
  /\ Next1(DefScan) = {}
  /\ LET killed == killVirtRegs(RAFast, VirtDead \cap DOMAIN LiveVirtRegs)
     IN Become([killed EXCEPT !.MBB[MI].gone = CopyDst # NoReg /\ CopyDst = CopySrc])
  /\ PhysRegsUsed' = PhysRegsUsed \cup UsedInInstr
       \cup IF Given.kind = "call" THEN {Given.ops[k].reg : k \in {j \in Defs(Given) : Given.ops[j].imp}}
            ELSE {}
  /\ MI' = MI + 1
  /\ phase' = "instr"
  /\ UNCHANGED <<fn, unreachable, op, VirtDead, CopySrc, CopyDst, blocks, runVars>>

\* Mutant: before the last terminator instead of the first.
LastTerminator ==
  LET ends == {i \in DOMAIN MBB : MBB[i].kind = "term"} \cup {Len(MBB)}
  IN IF Cardinality(ends) = 1 THEN Len(MBB)
     ELSE CHOOSE i \in ends \ {Len(MBB)} : \A j \in ends \ {Len(MBB)} : j <= i

FirstTerminator ==
  LET ends == {i \in DOMAIN MBB : MBB[i].kind = "term"} \cup {Len(MBB)}
  IN CHOOSE i \in ends : \A j \in ends : i <= j

EndOfBlock ==
  /\ phase = "instr"
  /\ MI = Len(MBB)
  /\ LET spilled == spillAll(RAFast, FirstTerminator)
     IN /\ Become([spilled EXCEPT !.MBB = <<>>])
        /\ blocks' = Append(blocks, spilled.MBB)
  /\ phase' = "block"
  /\ UNCHANGED <<fn, PhysRegsUsed, unreachable, scanVars, runVars>>

EndOfFunction ==
  /\ phase = "block"
  /\ Current \notin DOMAIN fn
  /\ phase' = "run"
  /\ UNCHANGED <<fn, raVars, scanVars, blocks, runVars>>

------------------------------------------------------------------------------
(* The allocated code runs, the given code beside it. *)

Here == blocks[at[1]][at[2]]

\* After a terminator the block may be left at once, with what was inserted behind it
\* undone; after the last one it is.
Jumped == moved = 0 /\ Code!AfterTerminator(fn, at)
MovesAreMade == moved = Len(Here.moves) \/ (Jumped /\ ~Code!InBlock(fn, at))

RunMoves ==
  /\ phase = "run"
  /\ ~MovesAreMade
  /\ LET moves == Here.moves[moved + 1]
         Loads(c) == {m \in moves : m.load /\ c \in UnitsOf[m.phys]}
         Stores(c) == {m \in moves : ~m.load /\ c = m.virt}
     IN file' = [c \in DOMAIN file |->
                   IF Loads(c) # {} THEN file[(CHOOSE m \in Loads(c) : TRUE).virt]
                   ELSE IF Stores(c) # {} THEN Value(file, (CHOOSE m \in Stores(c) : TRUE).phys)
                   ELSE IF \E m \in moves : m.kill /\ c \in UnitsOf[m.phys] THEN Junk
                   ELSE file[c]]
  /\ moved' = moved + 1
  /\ UNCHANGED <<fn, phase, raVars, scanVars, blocks, at, visits, regs, seen>>

Execute ==
  /\ phase = "run"
  /\ MovesAreMade
  /\ Code!InBlock(fn, at)
  /\ LET ins == Code!InstrAt(fn, at)
         stamp == Code!Stamp(at, visits)
     IN /\ regs' = Run(regs, Code!Unflagged(ins), {}, stamp)
        /\ seen' = Reads(file, Here)
        /\ file' = IF Here.gone THEN file ELSE Run(file, Here, Here.kills, stamp)
  /\ at' = <<at[1], at[2] + 1>>
  /\ moved' = 0
  /\ UNCHANGED <<fn, phase, raVars, scanVars, blocks, visits>>

Branch ==
  /\ phase = "run"
  /\ Jumped \/ (MovesAreMade /\ ~Code!InBlock(fn, at))
  /\ visits < MaxVisits
  /\ \E b \in fn[at[1]].succ : at' = <<b, 1>>
  /\ visits' = visits + 1
  /\ seen' = <<>> /\ moved' = 0
  /\ UNCHANGED <<fn, phase, raVars, scanVars, blocks, regs, file>>

Next ==
  \/ BeginBlock \/ BeginInstr
  \/ ScanUsePhysReg \/ ScanEarlyPhysReg \/ EndOfFirstScan
  \/ CollidingPhysDef \/ EndOfCollisions \/ ThroughUse \/ EarlyClobber \/ EndOfThrough
  \/ VirtUse \/ EndOfUses \/ DefinePhysReg \/ DefineVirtReg \/ EndOfInstr
  \/ EndOfBlock \/ EndOfFunction
  \/ RunMoves \/ Execute \/ Branch

Spec == Init /\ [][Next]_vars

------------------------------------------------------------------------------
\* What is known of every physical register and every live virtual register.
TypeOK ==
  /\ LiveInsApart(fn)
  /\ phase \in Phase
  /\ PhysRegState \in [PhysReg -> VirtReg \cup {Disabled, Free, Reserved}]
  /\ DOMAIN LiveVirtRegs \subseteq VirtReg
  /\ \A v \in DOMAIN LiveVirtRegs :
       LiveReg(LiveVirtRegs[v]) /\ LiveVirtRegs[v].PhysReg \in PhysReg
  /\ unreachable \in BOOLEAN

\* "A register state may also be a virtual register number, ... In that case,
\* LiveVirtRegs contains the inverse mapping", of whatever a scan has displaced,
\* killed or defined (asserted as "Broken RegState mapping", "Bad inverse map").
MapsAreInverse ==
  /\ \A p \in PhysReg : PhysRegState[p] \in VirtReg =>
       /\ PhysRegState[p] \in DOMAIN LiveVirtRegs
       /\ LiveVirtRegs[PhysRegState[p]].PhysReg = p
  /\ \A v \in DOMAIN LiveVirtRegs : PhysRegState[LiveVirtRegs[v].PhysReg] = v

\* "A register can only be moved out of the disabled state if all aliases are
\* disabled": two overlapping registers are never both in use, so a free register
\* can be taken without looking at its aliases.
NoAliasInUse ==
  \A p, q \in PhysReg :
    q \in Aliases(p) => PhysRegState[p] = Disabled \/ PhysRegState[q] = Disabled

\* "Mapping not cleared form last block?": no register is live between two blocks.
NothingCrossesBlocks == phase \in {"block", "run"} => DOMAIN LiveVirtRegs = {}

\* The state of the registers, inductively: what TypeOK, MapsAreInverse, NoAliasInUse
\* and NothingCrossesBlocks say, over every displacement, kill, hint and spill.
RegInv == TypeOK /\ MapsAreInverse /\ NoAliasInUse /\ NothingCrossesBlocks

\* No instruction uses a register, or an alias of one, that was given to a virtual
\* register meanwhile, and none runs out of registers (the llvm_unreachables of
\* usePhysReg, the fatal error of allocVirtReg).
AssertionsHold == ~unreachable

\* Every operand was given a register, and every allocatable register the code
\* writes is recorded for the prologue, which saves what the caller expects to keep.
AllocatedCode ==
  phase = "run" =>
    \A b \in DOMAIN blocks : \A i \in DOMAIN blocks[b] :
      LET ins == blocks[b][i]
          loaded == {m.phys : m \in UNION {{x \in ins.moves[j] : x.load} : j \in DOMAIN ins.moves}}
          defined == {ins.ops[k].reg : k \in Defs(ins)}
      IN /\ \A k \in DOMAIN ins.ops : ins.ops[k].reg \in PhysReg
         /\ ~ins.gone => (loaded \cup defined) \cap Allocatable \subseteq PhysRegsUsed

\* The allocated function reads what the given one reads, instruction by
\* instruction, along every path: no value is lost to a register given away, a
\* missing store, a stale slot, a wrong kill or a copy that should have stayed.
CodeSpec == Code!Spec
==============================================================================
