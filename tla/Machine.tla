------------------------------- MODULE Machine -------------------------------
(***************************************************************************)
(* What lib/CodeGen/RegAllocFast.cpp sees of a target and of the code it   *)
(* is given: registers, some of which overlap, instructions with register  *)
(* operands, and what running one does to the registers.                   *)
(*                                                                         *)
(* A register file is a function on cells. A physical register is the set  *)
(* of its units; a virtual register is one cell of its own, which the code *)
(* before allocation reads and writes and which the allocated code keeps   *)
(* on the stack, as the register's spill slot.                             *)
(***************************************************************************)
EXTENDS Integers, Sequences

CONSTANTS
  VirtReg, PhysReg, Unit,
  UnitsOf,    \* the units of a physical register
  AliasSet,   \* the registers that overlap one, in the target's order
  Junk        \* what a register holds that nobody may read

Aliases(p) == {AliasSet[p][i] : i \in DOMAIN AliasSet[p]}

ASSUME MachineAssumption ==
  /\ VirtReg \cap PhysReg = {} /\ VirtReg \cap Unit = {}
  /\ UnitsOf \in [PhysReg -> SUBSET Unit]
  /\ \A p \in PhysReg : UnitsOf[p] # {}
  /\ AliasSet \in [PhysReg -> Seq(PhysReg)]
  /\ \A p \in PhysReg : \A i, j \in DOMAIN AliasSet[p] : AliasSet[p][i] = AliasSet[p][j] => i = j
  /\ \A p, q \in PhysReg : q \in Aliases(p) <=> q # p /\ UnitsOf[p] \cap UnitsOf[q] # {}

isSuperRegister(p, q) == q # p /\ UnitsOf[p] \subseteq UnitsOf[q]

Reg == VirtReg \cup PhysReg

\* tied is, on a use, the operand that is defined in the same register, or 0.
\* kill stands for "dead" on a definition.
Operand == [reg : Reg, def : BOOLEAN, kill : BOOLEAN, early : BOOLEAN,
            imp : BOOLEAN, tied : Nat]

InstrKind == {"op", "copy", "call", "asm", "term"}
Instr == [kind : InstrKind, ops : Seq(Operand)]

Block == [livein : Seq(PhysReg), code : Seq(Instr), succ : SUBSET (Nat \ {0})]

CellsOf(r) == IF r \in VirtReg THEN {r} ELSE UnitsOf[r]

Cells(R) == UNION {CellsOf(r) : r \in R}

Value(file, r) ==
  LET held == {file[c] : c \in CellsOf(r)}
  IN IF \E x \in held : held = {x} THEN CHOOSE x \in held : held = {x} ELSE Junk

Uses(ins) == {i \in DOMAIN ins.ops : ~ins.ops[i].def}
Defs(ins) == {i \in DOMAIN ins.ops : ins.ops[i].def}

\* An instruction computes something new, that nothing else in the run computes.
Result(file, ins, i, stamp) ==
  IF ins.kind = "copy" THEN Value(file, ins.ops[2].reg) ELSE Append(stamp, i)

\* A two-address instruction writes where the tied operand is.
Written(ins, i) ==
  IF \E j \in Uses(ins) : ins.ops[j].tied = i
    THEN ins.ops[CHOOSE j \in Uses(ins) : ins.ops[j].tied = i].reg
    ELSE ins.ops[i].reg

\* An early clobber is written before the uses are read.
Clobbered(file, ins) ==
  [c \in DOMAIN file |->
     IF \E i \in Defs(ins) : ins.ops[i].early /\ c \in CellsOf(ins.ops[i].reg)
       THEN Junk ELSE file[c]]

\* What an instruction reads. A copy only moves what is read later.
Reads(file, ins) ==
  IF ins.kind = "copy" THEN <<>>
  ELSE [i \in Uses(ins) |-> Value(Clobbered(file, ins), ins.ops[i].reg)]

\* A killed register is not read again before it is written, so the worst that
\* can be in it is Junk. A call leaves no register as it was.
Run(file, ins, kills, stamp) ==
  LET killed == kills \cup {ins.ops[i].reg : i \in {j \in Uses(ins) : ins.ops[j].kill}}
      Writers(c) == {i \in Defs(ins) : c \in CellsOf(Written(ins, i))}
      LastOf(S) == CHOOSE i \in S : \A j \in S : j <= i
  IN [c \in DOMAIN file |->
        IF Writers(c) # {}
          THEN LET i == LastOf(Writers(c))
               IN IF ins.ops[i].kill THEN Junk ELSE Result(file, ins, i, stamp)
        ELSE IF c \in Cells(killed) \/ (ins.kind = "call" /\ c \in Unit) THEN Junk
        ELSE file[c]]
==============================================================================
