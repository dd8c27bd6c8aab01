----------------------------- MODULE MachineCode -----------------------------
(***************************************************************************)
(* A function running on a machine with as many registers as it names: the *)
(* meaning register allocation has to keep. What is observed of a run is   *)
(* what every instruction reads.                                           *)
(***************************************************************************)
EXTENDS Machine

CONSTANT MaxVisits  \* the bound on how many blocks of a run are followed

VARIABLES fn, at, visits, regs, reads

codeVars == <<fn, at, visits, regs, reads>>

\* The arguments are in the registers live into the first block.
Entered(f) ==
  LET args == f[1].livein
  IN [c \in VirtReg \cup Unit |->
        IF \E i \in DOMAIN args : c \in UnitsOf[args[i]]
          THEN <<0, 0, 0, CHOOSE i \in DOMAIN args : c \in UnitsOf[args[i]]>>
          ELSE Junk]

Start == <<1, 1>>
Stamp(a, v) == <<a[1], a[2], v>>
InBlock(f, a) == a[2] <= Len(f[a[1]].code)
InstrAt(f, a) == f[a[1]].code[a[2]]

\* A block has one terminator or several, and each may leave it.
AfterTerminator(f, a) == a[2] > 1 /\ f[a[1]].code[a[2] - 1].kind = "term"

\* Kill and dead flags are hints: code means the same without them.
Unflagged(ins) == [ins EXCEPT !.ops = [k \in DOMAIN @ |-> [@[k] EXCEPT !.kill = FALSE]]]

Init ==
  /\ fn \in Seq(Block)   \* the first block is entered
  /\ at = Start /\ visits = 1
  /\ regs = Entered(fn)
  /\ reads = <<>>

Execute ==
  /\ InBlock(fn, at)
  /\ LET ins == InstrAt(fn, at)
     IN /\ reads' = Reads(regs, ins)
        /\ regs' = Run(regs, Unflagged(ins), {}, Stamp(at, visits))
  /\ at' = <<at[1], at[2] + 1>>
  /\ UNCHANGED <<fn, visits>>

Branch ==
  /\ AfterTerminator(fn, at) \/ ~InBlock(fn, at)
  /\ visits < MaxVisits
  /\ \E b \in fn[at[1]].succ : at' = <<b, 1>>
  /\ visits' = visits + 1
  /\ reads' = <<>>
  /\ UNCHANGED <<fn, regs>>

Next == Execute \/ Branch

Spec == Init /\ [][Next]_codeVars
==============================================================================
